---- MODULE Spec2Model ----
(***************************************************************************)
(* Knowledge aggregation engine of SM-Bot-Backend:                         *)
(*   - SmartCache            (src/utils/cache.js)                          *)
(*   - gatherKnowledge       (src/services/newsService.js, server part)    *)
(*   - smartSearch, performWebSearch, determineBestAnswer                  *)
(*                           (src/services/webSearchService.js)            *)
(* The node event loop is modelled by interleaving: one action is one      *)
(* synchronous run-to-completion piece of a handler (from one await, timer *)
(* or request to the next).                                                *)
(***************************************************************************)
EXTENDS Integers, Sequences, FiniteSets, TLC

\* ------------------------------------------------------------------ bounds
MaxTime == 2
MaxSets == 2
MaxGets == 1
MaxRequests == 2
MaxFanOut == 3
MaxMatched == 2
MaxChars == 4

\* MaxTime : the simulated clock Date.now() runs over 0..MaxTime
\* MaxSets : set calls made by the cache clients (caps stats.sets)
\* MaxGets : get calls made by the cache clients (caps stats.hits + stats.misses)
\* MaxRequests: calls of the search route that reach performWebSearch
\* MaxFanOut: promises one gatherKnowledge call pushes
\* MaxMatched: pattern groups of analyzeQuery that match one message
\* MaxChars: characters of the messages enumerated character by character

\* the ttl and maxAge arguments the cache clients pass, in clock ticks
Durations == {1, 2}

Keys   == {"k1", "k2"}
Values == {"v1", "v2"}
Null   == "null"

VARIABLES
  now,      \* Date.now()
  cache,    \* SmartCache.cache : Map key -> {data, timestamp, ttl}
  timers,   \* pending setTimeout callbacks scheduled by set, oldest first
  stats,    \* SmartCache.stats
  lastOp,   \* the cache call that ran last, with its arguments and result
  ss_pc,    \* smartSearch: the await it is suspended at ("idle" before a call)
  ss_query, \* smartSearch: its query argument
  ss_caller,\* smartSearch: who awaits it, the /api/search route or gatherKnowledge
  chain,    \* smartSearch: the probes of steps 1-4 (ddgResult, wikiResult, ...)
  fs,       \* performWebSearch: searchPromises, one per source
  fullSearch, \* performWebSearch: the aggregate it returned (results)
  ss_ret,   \* smartSearch: the value it returned
  ss_threw, \* history: the probes of this call whose body threw
  gk_pc,    \* gatherKnowledge: where it is ("idle" before the call)
  analysis, \* gatherKnowledge: analyzeQuery(message)
  message,  \* gatherKnowledge: its argument
  fetchers, \* gatherKnowledge: the promises pushed, by category
  results,  \* gatherKnowledge: the keys of the results object
  deadline, \* gatherKnowledge: the 6000 ms timer of the race
  pendingAtWaitEnd, \* history: the categories still pending when the wait ended
  aq_pc,    \* analyzeQuery: the rule group it evaluates next (0 before a call)
  aq_in,    \* analyzeQuery: what its patterns match in the message
  aq,       \* analyzeQuery: its local `analysis`
  fx        \* a cached fetcher (getWeather, getExchangeRates, performWebSearch):
            \* its call in progress, or the last one

cacheVars == <<now, cache, timers, stats, lastOp>>
ssVars == <<ss_pc, ss_query, ss_caller, chain, fs, fullSearch, ss_ret, ss_threw>>
gkVars == <<gk_pc, analysis, message, fetchers, results, deadline, pendingAtWaitEnd>>
aqVars == <<aq_pc, aq_in, aq>>
fxVars == <<fx>>

\* ------------------------------------------------------------- SmartCache
\* An entry as set stores it. seq is the number of the set call that wrote
\* it (the value of stats.sets right after that call): history only, the
\* code never reads it.
Entry(data, t, ttl, seq) ==
  [data |-> data, timestamp |-> t, ttl |-> ttl, seq |-> seq]

NoEntry == [data |-> Null, timestamp |-> 0, ttl |-> 0, seq |-> 0]

EntryOf(c, key) == IF key \in DOMAIN c THEN c[key] ELSE NoEntry

\* this.cache.delete(key)
MapDeleteAll(c, key) == [k \in {} |-> c[k]]
MapDelete(c, key) == [k \in (DOMAIN c) \ {key} |-> c[k]]

\* this.cache.set(key, e)
MapSet(c, key, e) == [k \in (DOMAIN c) \cup {key} |-> IF k = key THEN e ELSE c[k]]

\* get, line 19:  Date.now() - cached.timestamp < maxAge
GetFreshLax(entry, maxAge, t) == t - entry.timestamp <= maxAge
GetFreshAged(entry, maxAge, t) == 0 < t - entry.timestamp /\ t - entry.timestamp < maxAge
GetFresh(entry, maxAge, t) == t - entry.timestamp < maxAge

\* has, line 60:  Date.now() - cached.timestamp < maxAge (and a has for
\* which every entry is fresh)
HasFreshAlways(entry, maxAge, t) == TRUE
HasFresh(entry, maxAge, t) == t - entry.timestamp < maxAge

\* cleanup callback, line 45:  Date.now() - cached.timestamp >= ttl, where
\* ttl is the argument of the set call that scheduled the callback
CleanupExpired(entry, ttl, t) == t - entry.timestamp >= ttl

\* get that never finds its entry
GetHitNever(c, key, maxAge, t) == FALSE
GetHit(c, key, maxAge, t) == key \in DOMAIN c /\ GetFresh(c[key], maxAge, t)

\* what get returns
GetRet(c, key, maxAge, t) == IF GetHit(c, key, maxAge, t) THEN c[key].data ELSE Null

\* the map after get: a stale entry is deleted
GetCacheKeep(c, key, maxAge, t) == c
GetCache(c, key, maxAge, t) ==
  IF key \in DOMAIN c /\ ~GetFresh(c[key], maxAge, t) THEN MapDelete(c, key) ELSE c

\* counters that miss the misses
GetStatsHitsOnly(s, c, key, maxAge, t) ==
  IF GetHit(c, key, maxAge, t) THEN [s EXCEPT !.hits = @ + 1] ELSE s

\* the counters after get
GetStats(s, c, key, maxAge, t) ==
  IF GetHit(c, key, maxAge, t) THEN [s EXCEPT !.hits = @ + 1]
                               ELSE [s EXCEPT !.misses = @ + 1]

\* the map, the counters and the timer queue after set
SetCacheKeepFirst(c, s, key, data, ttl, t) ==
  IF key \in DOMAIN c THEN c ELSE MapSet(c, key, Entry(data, t, ttl, s.sets + 1))
SetCache(c, s, key, data, ttl, t) == MapSet(c, key, Entry(data, t, ttl, s.sets + 1))
SetStats(s) == [s EXCEPT !.sets = @ + 1]
SetTimers(q, s, key, ttl, t) ==
  Append(q, [key |-> key, ttl |-> ttl, due |-> t + ttl, seq |-> s.sets + 1])

Op(op, key, arg, ret, pre, present, tseq, removed) ==
  [op |-> op, key |-> key, arg |-> arg, ret |-> ret, pre |-> pre,
   present |-> present, at |-> now, tseq |-> tseq, removed |-> removed]

NoOp == [op |-> "none", key |-> Null, arg |-> 0, ret |-> Null, pre |-> NoEntry,
         present |-> FALSE, at |-> 0, tseq |-> 0, removed |-> FALSE]

\* SmartCache.get(key, maxAge)
Get(key, maxAge) ==
  /\ stats.hits + stats.misses < MaxGets
  /\ cache' = GetCache(cache, key, maxAge, now)
  /\ stats' = GetStats(stats, cache, key, maxAge, now)
  /\ lastOp' = Op("get", key, maxAge, GetRet(cache, key, maxAge, now),
                  EntryOf(cache, key), key \in DOMAIN cache, 0, FALSE)
  /\ UNCHANGED <<now, timers>>

\* SmartCache.set(key, data, ttl)
Set(key, data, ttl) ==
  /\ stats.sets < MaxSets
  /\ cache' = SetCache(cache, stats, key, data, ttl, now)
  /\ stats' = SetStats(stats)
  /\ timers' = SetTimers(timers, stats, key, ttl, now)
  /\ lastOp' = Op("set", key, ttl, data, EntryOf(cache, key), key \in DOMAIN cache,
                  0, FALSE)
  /\ UNCHANGED now

\* SmartCache.has(key, maxAge)
Has(key, maxAge) ==
  /\ lastOp' = Op("has", key, maxAge,
                  IF key \in DOMAIN cache /\ HasFresh(cache[key], maxAge, now)
                    THEN "true" ELSE "false",
                  EntryOf(cache, key), key \in DOMAIN cache, 0, FALSE)
  /\ UNCHANGED <<now, cache, timers, stats>>

\* SmartCache.delete(key)
Delete(key) ==
  /\ key \in DOMAIN cache
  /\ cache' = MapDelete(cache, key)
  /\ lastOp' = Op("delete", key, 0, "true", cache[key], TRUE, 0, TRUE)
  /\ UNCHANGED <<now, timers, stats>>

\* SmartCache.clear()
Clear ==
  /\ DOMAIN cache # {}
  /\ cache' = [k \in {} |-> NoEntry]
  /\ lastOp' = Op("clear", Null, 0, "true", NoEntry, FALSE, 0, TRUE)
  /\ UNCHANGED <<now, timers, stats>>

\* SmartCache.getStats(): the counters and this.cache.size (hitRate, a
\* string formatted from hits and misses, is left out)
StatsOf(s, c) ==
  [hits |-> s.hits, misses |-> s.misses, sets |-> s.sets, size |-> Cardinality(DOMAIN c)]

getStats ==
  /\ lastOp' = Op("getStats", Null, 0, StatsOf(stats, cache), NoEntry, FALSE, 0, FALSE)
  /\ UNCHANGED <<now, cache, timers, stats>>

\* SmartCache.keys(): the keys of the map (their order is not kept here)
keys ==
  /\ lastOp' = Op("keys", Null, 0, DOMAIN cache, NoEntry, FALSE, 0, FALSE)
  /\ UNCHANGED <<now, cache, timers, stats>>

\* the setTimeout callback of set, lines 42-49; it runs at or after its due
\* time (the event loop may be late, never early)
Cleanup(i) ==
  /\ i \in 1..Len(timers)
  /\ now >= timers[i].due
  /\ LET tm == timers[i]
         hit == tm.key \in DOMAIN cache /\ CleanupExpired(cache[tm.key], tm.ttl, now)
     IN /\ cache' = IF hit THEN MapDelete(cache, tm.key) ELSE cache
        /\ lastOp' = Op("cleanup", tm.key, tm.ttl, Null, EntryOf(cache, tm.key),
                        tm.key \in DOMAIN cache, tm.seq, hit)
  /\ timers' = SubSeq(timers, 1, i - 1) \o SubSeq(timers, i + 1, Len(timers))
  /\ UNCHANGED <<now, stats>>

\* the clock advances by one millisecond
Tick ==
  /\ now < MaxTime
  /\ now' = now + 1
  /\ lastOp' = NoOp
  /\ UNCHANGED <<cache, timers, stats>>

CacheInit ==
  /\ now = 0
  /\ cache = [k \in {} |-> NoEntry]
  /\ timers = <<>>
  /\ stats = [hits |-> 0, misses |-> 0, sets |-> 0]
  /\ lastOp = NoOp

\* --------------------------------------------------- webSearchService.js
\* The queries smartSearch is called with. "" is what gatherKnowledge passes
\* for a message made of question marks only.
\* "define git" and "define_git" differ for the dictionary step and share
\* their cache key.
Queries == {"", "is", "love", "define love", "define git", "define_git"}

\* smartSearch, line 428: query.toLowerCase().match(/(?:define|meaning of|
\* what is a|what's a)\s+(\w+)/i)
IsDefineQuery(q) == q \in {"define love", "define git"}

\* searchStackExchange, lines 209-213: techKeywords.some(kw =>
\* query.toLowerCase().includes(kw))   (the keyword 'git')
IsTechQueryAny(q) == TRUE
IsTechQuery(q) == q \in {"define git", "define_git"}

\* performWebSearch, line 12: `websearch_${query.toLowerCase()
\* .replace(/\s+/g, '_')}`
WebSearchKey(q) ==
  CASE q = "" -> "websearch_"
    [] q = "is" -> "websearch_is"
    [] q = "love" -> "websearch_love"
    [] q = "define_git" -> "websearch_define_git"
    [] q = "define love" -> "websearch_define_love"
    [] q = "define git" -> "websearch_define_git"

\* performWebSearch, lines 13 and 50: the 30 minute window, in milliseconds
WEBSEARCH_TTL == 1800000

\* A SourceResult: confidence is kept in hundredths (0.95 is 95). The
\* payload fields (answer, topics, results, meanings, url, ...) are left out:
\* every source fills them with non-empty data whenever it returns a result.
Result(type, confidence, source) ==
  [type |-> type, confidence |-> confidence, source |-> source]

\* a source returning null (also after a caught exception)
NoResult == Result("null", 0, "null")

\* the body of a source function throwing (fetch fails, response.json()
\* fails on a malformed body, a field of the response is not what the code
\* dereferences)
Thrown == Result("thrown", 0, "thrown")

\* try { ... } catch (error) { return null } around the body of every
\* source function (lines 61/122, 132/165, 175/198, 207/249, 258/275,
\* 312/337): what the function resolves to when its body ends with o
ProbeNoCatch(o) == o
ProbeCatch(o) == IF o = Thrown THEN NoResult ELSE o

\* searchDuckDuckGo, lines 60-126
DdgOutcomes ==
  { Result("instant_answer", 95, "DuckDuckGo Instant Answer"),
    Result("abstract", 85, "DuckDuckGo"),
    Result("definition", 80, "DuckDuckGo"),
    Result("related", 60, "DuckDuckGo Related"),
    NoResult }

\* searchWikipedia, lines 131-169
WikiOutcomes == { Result("encyclopedia", 90, "Wikipedia"), NoResult }

\* searchWikipediaExtracts, lines 174-201
ExtractsOutcomes == { Result("search_results", 70, "Wikipedia Search"), NoResult }

\* searchStackExchange, lines 206-252: null without a request unless the
\* query has a tech keyword
StackOutcomes(q) ==
  IF IsTechQuery(q)
    THEN { Result("stackoverflow_answer", 85, "Stack Overflow"),
           Result("stackoverflow_question", 70, "Stack Overflow"),
           NoResult }
    ELSE { NoResult }

\* searchWolframAlpha, lines 257-278: returns null on every path
WolframOutcomes == { NoResult }

\* searchDictionary, lines 311-340
DictOutcomes == { Result("dictionary", 95, "Free Dictionary"), NoResult }

\* performWebSearch, lines 28-34: searchPromises, in array order
Sources == <<"ddg", "wiki", "extracts", "stack", "wolfram">>
SourceSet == {Sources[i] : i \in 1..Len(Sources)}

SourceOutcomes(src, q) ==
  CASE src = "ddg" -> DdgOutcomes
    [] src = "wiki" -> WikiOutcomes
    [] src = "extracts" -> ExtractsOutcomes
    [] src = "stack" -> StackOutcomes(q)
    [] src = "wolfram" -> WolframOutcomes

\* smartSearch, steps 1-4
Steps == {"ddg", "wiki", "dict", "stack", "full"}

\* a promise of a probe: not created, pending, or settled with res
Idle == [st |-> "idle", res |-> NoResult]
Running == [st |-> "running", res |-> NoResult]
Settled(r) == [st |-> "done", res |-> r]

\* smartSearch, line 407
DdgQualifiesInstantOnly(r) == r # NoResult /\ r.type = "instant_answer"
DdgQualifies(r) == r # NoResult /\ (r.type = "instant_answer" \/ r.type = "abstract")

\* smartSearch, line 418 (answer is the non-empty extract of every
\* encyclopedia result, line 152)
WikiQualifiesNever(r) == FALSE
WikiQualifies(r) == r # NoResult

\* smartSearch, lines 428-429: the step called after a failed step 2
AfterWiki(q) == IF IsDefineQuery(q) THEN "dict" ELSE "stack"

\* smartSearch, lines 431 and 443
ProbeFoundAny(r) == TRUE
ProbeFound(r) == r # NoResult

\* what performWebSearch returns (results, lines 19-25); payloads left out
Aggregate(q, all, best) ==
  [query |-> q, allResults |-> all,
   sources |-> [i \in 1..Len(all) |-> all[i].source], bestAnswer |-> best]

NoAggregate == Aggregate("", <<>>, NoResult)

\* what smartSearch returns: result is NoResult and partialResults is <<>>
\* when the returned object has no such field
Ret(found, result, partial) ==
  [found |-> found, result |-> result, partialResults |-> partial]

NoRet == Ret(FALSE, NoResult, <<>>)

\* a sort that leaves the array as it is
InsertByConfidenceKeepOrder(r, sorted) == sorted \o <<r>>

\* Array.prototype.sort((a, b) => b.confidence - a.confidence), line 351:
\* descending and stable (equal elements keep their array order)
RECURSIVE InsertByConfidence(_, _)
InsertByConfidence(r, sorted) ==
  IF sorted = <<>> THEN <<r>>
  ELSE IF Head(sorted).confidence >= r.confidence
         THEN <<Head(sorted)>> \o InsertByConfidence(r, Tail(sorted))
         ELSE <<r>> \o sorted

RECURSIVE SortByConfidence(_)
SortByConfidence(rs) ==
  IF rs = <<>> THEN <<>>
  ELSE InsertByConfidence(rs[Len(rs)], SortByConfidence(SubSeq(rs, 1, Len(rs) - 1)))

\* .filter(r => r && r.confidence), line 350
HasConfidence(r) == r # NoResult /\ r.confidence # 0

\* determineBestAnswer, lines 345-397 (formattedAnswer without its content)
determineBestAnswer(rs) ==
  LET sorted == SortByConfidence(SelectSeq(rs, HasConfidence))
  IN IF rs = <<>> \/ sorted = <<>> THEN NoResult
     ELSE Result(sorted[1].type, sorted[1].confidence, sorted[1].source)

\* performWebSearch, lines 39-44: the fulfilled non-null values, in the
\* order of searchPromises (Settled(Thrown) is a rejected promise)
RECURSIVE Collect(_, _)
Collect(f, i) ==
  IF i > Len(Sources) THEN <<>>
  ELSE (IF f[Sources[i]].res # Thrown /\ f[Sources[i]].res # NoResult
          THEN <<f[Sources[i]].res>> ELSE <<>>)
       \o Collect(f, i + 1)

\* performWebSearch, lines 47-51: whether the aggregate is cached
ShouldCacheAlways(agg) == TRUE
ShouldCache(agg) == agg.bestAnswer # NoResult \/ Len(agg.allResults) > 0

\* smartSearch, lines 453-476: the return value after the full search
FromFullSearch(agg) ==
  IF agg.bestAnswer # NoResult THEN Ret(TRUE, agg.bestAnswer, <<>>)
  ELSE IF Len(agg.allResults) > 0 THEN Ret(FALSE, NoResult, agg.allResults)
  ELSE Ret(FALSE, NoResult, <<>>)

\* ---------------------------------------------- gatherKnowledge (server)
\* the categories fetched through a promise pushed on `promises`
AsyncCats == {"time", "weather", "currency", "crypto", "news", "country",
              "dictionary", "quote", "joke", "trivia", "wikipedia"}

\* the flags analyzeQuery can set (needsNews and needsCountry are
\* initialised to false and never assigned)
SettableFlags == {"needsTime", "needsDate", "needsWeather", "needsCurrency",
                  "needsCrypto", "needsDictionary", "needsMath", "needsQuote",
                  "needsJoke", "needsTrivia", "needsWikipedia", "needsWebSearch"}

\* the analysis object as gatherKnowledge reads it. The currency and crypto
\* parameters only choose between two fetchers that fill the same key.
MkAnalysis(F, terms) ==
  [needsTime |-> "needsTime" \in F,
   timeLocation |-> IF "needsTime" \in F THEN "paris" ELSE Null,
   needsDate |-> "needsDate" \in F,
   needsWeather |-> "needsWeather" \in F,
   weatherLocation |-> IF "needsWeather" \in F THEN "paris" ELSE Null,
   needsCurrency |-> "needsCurrency" \in F,
   needsCrypto |-> "needsCrypto" \in F,
   needsNews |-> "needsNews" \in F,
   needsCountry |-> "needsCountry" \in F,
   needsDictionary |-> "needsDictionary" \in F,
   needsMath |-> "needsMath" \in F,
   mathExpression |-> IF "needsMath" \in F THEN "2+2" ELSE Null,
   needsQuote |-> "needsQuote" \in F,
   needsJoke |-> "needsJoke" \in F,
   needsTrivia |-> "needsTrivia" \in F,
   needsWikipedia |-> "needsWikipedia" \in F,
   needsWebSearch |-> "needsWebSearch" \in F,
   searchTerms |-> terms]

NoAnalysis == MkAnalysis({}, <<>>)

\* gatherKnowledge, lines 473-599: the condition under which the fetcher of
\* category c is called and its promise pushed
Issued(a, c) ==
  CASE c = "time" -> a.needsTime /\ a.timeLocation # Null
    [] c = "weather" -> a.needsWeather /\ a.weatherLocation # Null
    [] c = "currency" -> a.needsCurrency
    [] c = "crypto" -> a.needsCrypto
    [] c = "news" -> a.needsNews
    [] c = "country" -> a.needsCountry /\ Len(a.searchTerms) > 0
    [] c = "dictionary" -> a.needsDictionary /\ Len(a.searchTerms) > 0
    [] c = "quote" -> a.needsQuote
    [] c = "joke" -> a.needsJoke
    [] c = "trivia" -> a.needsTrivia
    [] c = "wikipedia" -> a.needsWikipedia /\ Len(a.searchTerms) > 0

IssuedCats(a) == {c \in AsyncCats : Issued(a, c)}

\* the raw messages that matter beyond their analysis: "??" (question marks
\* only) and any other message
Messages == {"??", "msg"}

\* message.replace(/\?/g, '').trim(), line 610
StripQuestion(m) == IF m = "??" THEN "" ELSE m

\* The (message, flags, searchTerms) triples analyzeQuery can produce; of
\* searchTerms only the first is ever read (lines 594 and 610).
\*  - the dictionary group pushes the word it captured (line 173), before
\*    any other group pushes;
\*  - the knowledge group (needs !needsTime && !needsWeather && !needsMath)
\*    pushes what its searchMatch captured, if it matches (lines 241-244);
\*  - the fallbacks run only when no group set primaryIntent: needsWebSearch
\*    comes alone, with the message stripped of its question marks (lines
\*    256-257), or with needsWikipedia for a message of at most 3 characters,
\*    with cleanQuery if it is not empty (lines 264-271).
\* At most MaxFanOut promises are pushed.
AnalysisOk(m, F, terms) ==
  /\ ("needsWebSearch" \in F) => F \subseteq {"needsWebSearch", "needsWikipedia"}
  /\ ("needsWikipedia" \in F /\ "needsWebSearch" \notin F) =>
       F \cap {"needsTime", "needsWeather", "needsMath"} = {}
  /\ ("needsDictionary" \in F) => terms = <<"love">>
  /\ ("needsWikipedia" \in F /\ F \cap {"needsWebSearch", "needsDictionary"} = {}) =>
       terms \in {<<>>, <<"love">>}
  /\ (F = {"needsWebSearch"}) => terms \in {<<"">>, <<"love">>, <<"define love">>}
  /\ (F = {"needsWebSearch", "needsWikipedia"}) => terms \in {<<>>, <<"is">>}
  /\ (F \cap {"needsDictionary", "needsWikipedia", "needsWebSearch"} = {}) => terms = <<>>
  /\ (m = "??") <=> ("needsWebSearch" \in F /\ terms \in {<<>>, <<"">>})

\* Promise.all(promises), line 603: settles when every promise is
\* fulfilled, or as soon as one is rejected
PromiseAllSettled(fet) ==
  \/ \A c \in AsyncCats : fet[c] # "pending"
  \/ \E c \in AsyncCats : fet[c] = "rejected"

\* Promise.race([Promise.all(promises), timer]), lines 602-605
RaceIgnoresTimer(allSettled, timerFired) == allSettled
RaceResolves(allSettled, timerFired) == allSettled \/ timerFired

\* the promise pushed for a fetcher, fetcher(...).then(...).catch(...):
\* how it settles for each outcome of the fetcher
FetcherChainNoCatch(outcome) == IF outcome = "throw" THEN "rejected" ELSE "fulfilled"
FetcherChain(outcome) == "fulfilled"

\* needsWebSearchFallback that ignores the map
FallbackAlways(res) == TRUE

\* needsWebSearchFallback (queryAnalyzer.js): no own value of results is
\* non-null; every value gatherKnowledge stores is a non-null object
needsWebSearchFallback(res) == res = {}

\* ------------------------------------------- analyzeQuery (queryAnalyzer.js)
\* The rule groups of analyzeQuery, in the order it evaluates them. A message
\* is given by the groups whose patterns match it:
\*   timePattern   one of timePatterns matches with a usable location (44-70)
\*   timeGeneral   /\b(what time|current time|...)\b/            (line 73)
\*   date (83), weather (95-115), convert (120), rate (130),
\*   cryptoName (141-156), cryptoGeneric (158), dict (170), math (183-184),
\*   direct        /^[\d\s\+\-\*\/\^x...\(\)\.]+$/                (line 194)
\*   quote (205), joke (213), trivia (221), knowledge (232-238)
\* followed by the two fallbacks, which match on the shape of the message.
RuleGroups == <<"timePattern", "timeGeneral", "date", "weather", "convert", "rate",
                "cryptoName", "cryptoGeneric", "dict", "math", "direct",
                "quote", "joke", "trivia", "knowledge", "webSearch", "question">>

NGroups == Len(RuleGroups)

\* the groups that match on a pattern
PatternGroups == {RuleGroups[i] : i \in 1..15}

\* ------------------------------------------------ strings, as JS sees them
\* A string whose characters matter is a sequence of one-character strings.
\* s.indexOf(pat, from i): the first position >= i where pat occurs, 0 if none
RECURSIVE IndexFrom(_, _, _)
IndexFrom(s, pat, i) ==
  IF i + Len(pat) - 1 > Len(s) THEN 0
  ELSE IF SubSeq(s, i, i + Len(pat) - 1) = pat THEN i
  ELSE IndexFrom(s, pat, i + 1)

\* s.includes(pat)
Includes(s, pat) == IndexFrom(s, pat, 1) # 0

\* s.replace(pat, rep) with a string pattern: the first occurrence only
Replace(s, pat, rep) ==
  LET i == IndexFrom(s, pat, 1)
  IN IF i = 0 THEN s
     ELSE SubSeq(s, 1, i - 1) \o rep \o SubSeq(s, i + Len(pat), Len(s))

\* s.trim()
RECURSIVE TrimLeft(_)
TrimLeft(s) == IF s # <<>> /\ Head(s) = " " THEN TrimLeft(Tail(s)) ELSE s

RECURSIVE TrimRight(_)
TrimRight(s) ==
  IF s # <<>> /\ s[Len(s)] = " " THEN TrimRight(SubSeq(s, 1, Len(s) - 1)) ELSE s

Trim(s) == TrimRight(TrimLeft(s))

\* s.replace(/\?/g, '')
RemoveQuestionMarks(s) == SelectSeq(s, LAMBDA c : c # "?")

\* line 60: /right now|now|please|currently|at the moment/gi, in the order
\* the alternatives are tried
Fillers == <<<<"r", "i", "g", "h", "t", " ", "n", "o", "w">>,
             <<"n", "o", "w">>,
             <<"p", "l", "e", "a", "s", "e">>,
             <<"c", "u", "r", "r", "e", "n", "t", "l", "y">>,
             <<"a", "t", " ", "t", "h", "e", " ", "m", "o", "m", "e", "n", "t">>>>

\* the length of the first of Fillers that s starts with, 0 if none
RECURSIVE FillerAt(_, _)
FillerAt(s, i) ==
  IF i > Len(Fillers) THEN 0
  ELSE IF Len(Fillers[i]) <= Len(s) /\ SubSeq(s, 1, Len(Fillers[i])) = Fillers[i]
         THEN Len(Fillers[i])
  ELSE FillerAt(s, i + 1)

\* s.replace(/right now|now|please|currently|at the moment/gi, '')
RECURSIVE RemoveFillers(_)
RemoveFillers(s) ==
  IF s = <<>> THEN <<>>
  ELSE IF FillerAt(s, 1) > 0
         THEN RemoveFillers(SubSeq(s, FillerAt(s, 1) + 1, Len(s)))
  ELSE <<Head(s)>> \o RemoveFillers(Tail(s))

\* lines 58-61: the location made of the text a time pattern captured
TimeLocationOf(captured) == Trim(RemoveFillers(RemoveQuestionMarks(captured)))

\* line 62: /^(what|the|is|it|me|you|a|an)$/i
StopWords == {<<"w", "h", "a", "t">>,
              <<"t", "h", "e">>,
              <<"i", "s">>,
              <<"i", "t">>,
              <<"m", "e">>,
              <<"y", "o", "u">>,
              <<"a">>,
              <<"a", "n">>}

\* line 62: location && location.length > 1 && !location.match(stoplist)
LocationAccepted(location) ==
  /\ location # <<>>
  /\ Len(location) > 1
  /\ location \notin StopWords

\* lines 56-70: the location of the first time pattern, in the order of
\* timePatterns, whose capture gives an accepted location; <<>> if none
RECURSIVE FirstLocation(_)
FirstLocation(caps) ==
  IF caps = <<>> THEN <<>>
  ELSE IF LocationAccepted(TimeLocationOf(Head(caps))) THEN TimeLocationOf(Head(caps))
  ELSE FirstLocation(Tail(caps))

\* String.prototype.toLowerCase and toUpperCase, on the letters the
\* messages enumerated are written with; every other character is kept
LowerChar(c) ==
  CASE c = "U" -> "u"
    [] c = "S" -> "s"
    [] c = "D" -> "d"
    [] c = "E" -> "e"
    [] c = "R" -> "r"
    [] c = "A" -> "a"
    [] OTHER -> c

UpperChar(c) ==
  CASE c = "u" -> "U"
    [] c = "s" -> "S"
    [] c = "d" -> "D"
    [] c = "e" -> "E"
    [] c = "r" -> "R"
    [] c = "a" -> "A"
    [] OTHER -> c

ToLower(s) == [i \in 1..Len(s) |-> LowerChar(s[i])]
ToUpper(s) == [i \in 1..Len(s) |-> UpperChar(s[i])]

\* the value of a digit, and of a sequence of digits
DigitValue(c) ==
  CASE c = "0" -> 0 [] c = "1" -> 1 [] c = "2" -> 2 [] c = "3" -> 3 [] c = "4" -> 4
    [] c = "5" -> 5 [] c = "6" -> 6 [] c = "7" -> 7 [] c = "8" -> 8 [] c = "9" -> 9

RECURSIVE DigitsValue(_)
DigitsValue(s) ==
  IF s = <<>> THEN 0
  ELSE 10 * DigitsValue(SubSeq(s, 1, Len(s) - 1)) + DigitValue(s[Len(s)])

\* parseFloat of a text matched by \d+(?:\.\d+)?, in hundredths (the
\* amounts enumerated have at most two decimals)
ParseFloat(s) ==
  LET dot == IndexFrom(s, <<".">>, 1)
      int == IF dot = 0 THEN s ELSE SubSeq(s, 1, dot - 1)
      frac == IF dot = 0 THEN <<>> ELSE SubSeq(s, dot + 1, Len(s))
  IN 100 * DigitsValue(int)
     + (IF Len(frac) = 1 THEN 10 * DigitsValue(frac) ELSE DigitsValue(frac))

\* line 194: the class [\d\s\+\-\*\/\^x×÷\(\)\.]
DirectClass == {"0", "1", "2", "3", "4", "5", "6", "7", "8", "9", " ",
                "+", "-", "*", "/", "^", "x", "×", "÷", "(", ")", "."}

\* line 194: lower.match(/^[\d\s\+\-\*\/\^x×÷\(\)\.]+$/)
DirectMathNoBlank(lower) ==
  lower # <<>> /\ \A i \in 1..Len(lower) : lower[i] \in DirectClass \ {" "}
DirectMath(lower) ==
  lower # <<>> /\ \A i \in 1..Len(lower) : lower[i] \in DirectClass

\* line 196: lower.replace(/x|×/g, '*').replace(/÷/g, '/')
MathExpressionOf(lower) ==
  [i \in 1..Len(lower) |->
     IF lower[i] \in {"x", "×"} THEN "*" ELSE IF lower[i] = "÷" THEN "/" ELSE lower[i]]

\* analyzeQuery, lines 141-142: cryptoNames, in array order
cryptoNames ==
  <<<<"b", "i", "t", "c", "o", "i", "n">>,
     <<"b", "t", "c">>,
     <<"e", "t", "h", "e", "r", "e", "u", "m">>,
     <<"e", "t", "h">>,
     <<"d", "o", "g", "e", "c", "o", "i", "n">>,
     <<"d", "o", "g", "e">>,
     <<"l", "i", "t", "e", "c", "o", "i", "n">>,
     <<"r", "i", "p", "p", "l", "e">>,
     <<"x", "r", "p">>,
     <<"c", "a", "r", "d", "a", "n", "o">>,
     <<"a", "d", "a">>,
     <<"s", "o", "l", "a", "n", "a">>,
     <<"s", "o", "l">>,
     <<"p", "o", "l", "k", "a", "d", "o", "t">>>>

\* lines 147-149: crypto.replace('btc', 'bitcoin').replace('eth', 'ethereum')
\*                      .replace('doge', 'dogecoin')
NormalizeCrypto(crypto) ==
  Replace(Replace(Replace(crypto, <<"b", "t", "c">>, <<"b", "i", "t", "c", "o", "i", "n">>), <<"e", "t", "h">>, <<"e", "t", "h", "e", "r", "e", "u", "m">>), <<"d", "o", "g", "e">>, <<"d", "o", "g", "e", "c", "o", "i", "n">>)

\* lines 144-145: the first entry of cryptoNames that lower includes; <<>>
\* when there is none
RECURSIVE FirstCryptoFrom(_, _)
FirstCryptoFrom(lower, i) ==
  IF i > Len(cryptoNames) THEN <<>>
  ELSE IF Includes(lower, cryptoNames[i]) THEN cryptoNames[i]
  ELSE FirstCryptoFrom(lower, i + 1)

FirstCrypto(lower) == FirstCryptoFrom(lower, 1)

\* What the patterns of analyzeQuery see in a message:
\*   groups    the pattern groups that match
\*   kterm     the searchMatch of line 241 matches (knowledge group)
\*   long      message.trim().length > 3                           (line 255)
\*   question  /\?$/.test(message.trim())                          (line 263)
\*   stripped  message.replace(/\?/g, '').trim()                   (line 257)
\*   clean     cleanQuery of lines 266-268
\*   text      message.toLowerCase(), character by character, where the
\*             characters matter ("btc" or "2+2" when only the group
\*             matters)
\*   tcaps     match[1] of the timePatterns that match, in array order
\*             ("paris" when only the group matters)
\*   amount, from, to   the tokens of "convert <amount> <FROM> to <TO>" as
\*             the message writes them (read only when `convert` matches);
\*             amountValue is the number amount denotes, in hundredths
MkInput(groups, kterm, long, question, stripped, clean) ==
  [groups |-> groups, kterm |-> kterm, long |-> long, question |-> question,
   stripped |-> stripped, clean |-> clean,
   text |-> IF "cryptoName" \in groups THEN <<"b", "t", "c">>
            ELSE IF "direct" \in groups THEN <<"2", "+", "2">> ELSE <<>>,
   tcaps |-> IF "timePattern" \in groups THEN <<<<"p", "a", "r", "i", "s">>>> ELSE <<>>,
   amount |-> <<"5">>, amountValue |-> 500, from |-> <<"u", "s", "d">>, to |-> <<"e", "u", "r">>]

\* the messages matched by no pattern group: "hi", "??", "is?", "????",
\* "love", "love?", "define ?love", "define ?love?"
PlainInputs ==
  { MkInput({}, FALSE, FALSE, FALSE, "hi", "hi"),
    MkInput({}, FALSE, FALSE, TRUE, "", ""),
    MkInput({}, FALSE, FALSE, TRUE, "is", "is"),
    MkInput({}, FALSE, TRUE, TRUE, "", ""),
    MkInput({}, FALSE, TRUE, FALSE, "love", "love"),
    MkInput({}, FALSE, TRUE, TRUE, "love", "love"),
    MkInput({}, FALSE, TRUE, FALSE, "define love", "define love"),
    MkInput({}, FALSE, TRUE, TRUE, "define love", "define love") }

\* the messages matched by at most MaxMatched pattern groups. A message
\* that matches `direct` is made of digits, blanks, operators and x only: no
\* other pattern matches it. Every other combination is matched by a
\* message that puts the phrases side by side.
MatchedInputs ==
  { MkInput(G, k, TRUE, q, "msg", "msg") :
      G \in {H \in SUBSET PatternGroups :
               /\ H # {}
               /\ Cardinality(H) <= MaxMatched
               /\ ("direct" \in H => H = {"direct"})},
      k \in BOOLEAN, q \in BOOLEAN }

\* the messages made of one entry of cryptoNames, and "eth btc"
CryptoInputs ==
  { [MkInput({"cryptoName"}, FALSE, Len(t) > 3, FALSE, "msg", "msg") EXCEPT !.text = t] :
      t \in {cryptoNames[i] : i \in 1..Len(cryptoNames)}
             \cup {<<"e", "t", "h", " ", "b", "t", "c">>} }

\* the messages "<captured> time?", which only the fifth time pattern
\* matches, for some captured texts; "what is a time?" is also matched by
\* the dictionary and knowledge patterns
TimeInputs ==
  { [MkInput({"timePattern"}, FALSE, TRUE, TRUE, "msg", "msg") EXCEPT !.tcaps = <<c>>] :
      c \in {<<"p", "a", "r", "i", "s">>,
             <<"a">>,
             <<"i", "s">>,
             <<"n", "o", "w">>,
             <<"i", "s", " ", "a">>,
             <<"i", "t", " ", "i", "s">>,
             <<"n", "e", "w", " ", "y", "o", "r", "k", " ", "n", "o", "w">>} }
  \cup { [MkInput({"timePattern", "dict", "knowledge"}, TRUE, TRUE, TRUE, "msg", "msg")
            EXCEPT !.tcaps = <<<<"w", "h", "a", "t", " ", "i", "s", " ", "a">>>>] }

\* the messages "convert <amount> <FROM> to <TO>", alone or next to a
\* phrase of a group evaluated before or after the conversion group
ConvertInputs ==
  { [MkInput({"convert"} \cup G, FALSE, TRUE, FALSE, "msg", "msg") EXCEPT
       !.amount = am[1], !.amountValue = am[2], !.from = f, !.to = t] :
      G \in {{}, {"timePattern"}, {"date"}, {"weather"}, {"rate"}, {"cryptoName"}, {"joke"}},
      am \in {<<<<"5">>, 500>>, <<<<"5", ".", "5">>, 550>>, <<<<"5", ".", "5", "0">>, 550>>, <<<<"0", "5">>, 500>>, <<<<"1", "2", ".", "2", "5">>, 1225>>},
      f \in {<<"u", "s", "d">>, <<"U", "S", "D">>, <<"U", "s", "d">>},
      t \in {<<"e", "u", "r">>, <<"E", "U", "R">>} }

\* the messages of 1 to MaxChars characters written with the characters
\* 2, blank, *, ( and a: no pattern but that of the direct math group has a
\* match among them
ArithChars == {"2", " ", "*", "(", "a"}
ArithInputs ==
  { [MkInput(IF DirectMath(ToLower(t)) THEN {"direct"} ELSE {}, FALSE,
             Len(Trim(t)) > 3, FALSE, "msg", "msg") EXCEPT !.text = ToLower(t)] :
      t \in UNION {[1..n -> ArithChars] : n \in 1..MaxChars} }

Inputs ==
  PlainInputs \cup CryptoInputs \cup TimeInputs \cup ConvertInputs \cup ArithInputs \cup
  {in \in MatchedInputs :
     /\ (in.kterm => "knowledge" \in in.groups)
     /\ (in.question => "direct" \notin in.groups)}

\* analyzeQuery, lines 10-41: the analysis before any rule group (the null
\* of timeLocation, currencyFrom, currencyTo, cryptoName and mathExpression
\* is the sequence
\* without characters, the null of currencyAmount is -1)
InitialAnalysis ==
  [flags |-> {}, timeLocation |-> <<>>, weatherLocation |-> Null,
   currencyFrom |-> <<>>, currencyTo |-> <<>>, currencyAmount |-> -1,
   cryptoName |-> <<>>, mathExpression |-> <<>>,
   searchTerms |-> <<>>, confidence |-> 0, primaryIntent |-> Null]

\* an intent given without its confidence
SetIntentNoConfidence(a, intent, c) ==
  IF a.primaryIntent = Null THEN [a EXCEPT !.primaryIntent = intent] ELSE a

\* if (!analysis.primaryIntent) { primaryIntent = intent; confidence = c }
SetIntentIfNone(a, intent, c) ==
  IF a.primaryIntent = Null
    THEN [a EXCEPT !.primaryIntent = intent, !.confidence = c]
    ELSE a

\* analysis.primaryIntent = intent; analysis.confidence = c
SetIntentGuarded(a, intent, c) == SetIntentIfNone(a, intent, c)
SetIntent(a, intent, c) == [a EXCEPT !.primaryIntent = intent, !.confidence = c]

AddFlagNone(a, f) == a
AddFlag(a, f) == [a EXCEPT !.flags = @ \cup {f}]

\* analyzeQuery: the analysis after rule group g has been evaluated on a
\* message seen as in, from the analysis a before it
ApplyGroup(g, in, a) ==
  CASE g = "timePattern" ->                                  \* lines 56-70
         IF g \in in.groups /\ FirstLocation(in.tcaps) # <<>>
           THEN SetIntent([AddFlag(a, "needsTime") EXCEPT
                              !.timeLocation = FirstLocation(in.tcaps)],
                          "time", 95)
           ELSE a
    [] g = "timeGeneral" ->                                  \* lines 73-78
         IF "needsTime" \notin a.flags /\ g \in in.groups
           THEN SetIntent([AddFlag(a, "needsTime") EXCEPT !.timeLocation = <<"U", "T", "C">>],
                          "time", 80)
           ELSE a
    [] g = "date" ->                                         \* lines 83-89
         IF g \in in.groups
           THEN SetIntentIfNone(AddFlag(a, "needsDate"), "date", 90)
           ELSE a
    [] g = "weather" ->                                      \* lines 104-115
         IF g \in in.groups
           THEN SetIntentIfNone(
                  [AddFlag(a, "needsWeather") EXCEPT !.weatherLocation = "paris"],
                  "weather", 95)
           ELSE a
    [] g = "convert" ->                                      \* lines 120-128
         IF g \in in.groups
           THEN SetIntent([AddFlag(a, "needsCurrency") EXCEPT
                              !.currencyAmount = ParseFloat(ToLower(in.amount)),
                              !.currencyFrom = ToUpper(ToLower(in.from)),
                              !.currencyTo = ToUpper(ToLower(in.to))],
                          "currency_convert", 95)
           ELSE a
    [] g = "rate" ->                                         \* lines 130-136
         IF g \in in.groups
           THEN SetIntentIfNone(AddFlag(a, "needsCurrency"), "currency", 85)
           ELSE a
    [] g = "cryptoName" ->                                   \* lines 144-156
         IF g \in in.groups
           THEN SetIntentIfNone(
                  [AddFlag(a, "needsCrypto") EXCEPT
                     !.cryptoName = NormalizeCrypto(FirstCrypto(in.text))],
                  "crypto", 90)
           ELSE a
    [] g = "cryptoGeneric" ->                                \* lines 158-165
         IF g \in in.groups
           THEN SetIntentIfNone(
                  [AddFlag(a, "needsCrypto") EXCEPT !.cryptoName = <<"t", "o", "p">>],
                  "crypto", 85)
           ELSE a
    [] g = "dict" ->                                         \* lines 170-178
         IF g \in in.groups
           THEN SetIntentIfNone(
                  [AddFlag(a, "needsDictionary") EXCEPT
                     !.searchTerms = Append(@, "love")],
                  "dictionary", 95)
           ELSE a
    [] g = "math" ->                                         \* lines 183-191
         IF g \in in.groups
           THEN SetIntentIfNone(
                  [AddFlag(a, "needsMath") EXCEPT !.mathExpression = <<"2", "+", "2">>],
                  "math", 90)
           ELSE a
    [] g = "direct" ->                                       \* lines 194-200
         IF DirectMath(in.text)
           THEN SetIntent([AddFlag(a, "needsMath") EXCEPT
                              !.mathExpression = MathExpressionOf(in.text)],
                          "math", 95)
           ELSE a
    [] g = "quote" ->                                        \* lines 205-211
         IF g \in in.groups
           THEN SetIntentIfNone(AddFlag(a, "needsQuote"), "quote", 85)
           ELSE a
    [] g = "joke" ->                                         \* lines 213-219
         IF g \in in.groups
           THEN SetIntentIfNone(AddFlag(a, "needsJoke"), "joke", 90)
           ELSE a
    [] g = "trivia" ->                                       \* lines 221-227
         IF g \in in.groups
           THEN SetIntentIfNone(AddFlag(a, "needsTrivia"), "trivia", 85)
           ELSE a
    [] g = "knowledge" ->                                    \* lines 237-250
         IF /\ g \in in.groups
            /\ a.flags \cap {"needsTime", "needsWeather", "needsMath"} = {}
           THEN SetIntentIfNone(
                  [AddFlag(a, "needsWikipedia") EXCEPT
                     !.searchTerms = IF in.kterm THEN Append(@, "love") ELSE @],
                  "knowledge", 80)
           ELSE a
    [] g = "webSearch" ->                                    \* lines 255-260
         IF a.primaryIntent = Null /\ in.long
           THEN SetIntent(
                  [AddFlag(a, "needsWebSearch") EXCEPT
                     !.searchTerms = Append(@, in.stripped)],
                  "web_search", 50)
           ELSE a
    [] g = "question" ->                                     \* lines 263-274
         IF in.question /\ a.primaryIntent = Null
           THEN SetIntent(
                  [AddFlag(AddFlag(a, "needsWebSearch"), "needsWikipedia") EXCEPT
                     !.searchTerms = IF in.clean # "" THEN Append(@, in.clean) ELSE @],
                  "question", 60)
           ELSE a

\* analyzeQuery(message) is called: lines 7-41
AnalyzeStart(in) ==
  /\ aq_pc = 0
  /\ aq_pc' = 1
  /\ aq_in' = in
  /\ aq' = InitialAnalysis

\* analyzeQuery evaluates its next rule group; after the last one it
\* returns analysis (line 276)
AnalyzeGroup ==
  /\ aq_pc \in 1..NGroups
  /\ aq' = ApplyGroup(RuleGroups[aq_pc], aq_in, aq)
  /\ aq_pc' = aq_pc + 1
  /\ UNCHANGED aq_in

\* the caller is done with the analysis returned; analyzeQuery keeps
\* nothing from one call to the next
AnalyzeReturn ==
  /\ aq_pc = NGroups + 1
  /\ aq_pc' = 0
  /\ aq_in' = MkInput({}, FALSE, FALSE, FALSE, "hi", "hi")
  /\ aq' = InitialAnalysis

\* the analysis object gatherKnowledge gets from analyzeQuery (line 463)
Returned(a) == MkAnalysis(a.flags, a.searchTerms)

\* the inputs enumerated: the queries of the search route, and for
\* gatherKnowledge the flags set and the first search term
RouteQueries == {"define git", "define_git"}
FlagChoices == {"needsTime", "needsDate", "needsDictionary", "needsMath",
                "needsQuote", "needsWikipedia", "needsWebSearch"}
TermChoices == {<<>>, <<"">>, <<"is">>, <<"love">>, <<"define love">>}

\* smartSearch(query) up to its first await (line 406): the direct-answer
\* probe is in flight
StartSmartSearch(q, caller) ==
  /\ ss_pc' = "ddg"
  /\ ss_query' = q
  /\ ss_caller' = caller
  /\ chain' = [s \in Steps |-> IF s = "ddg" THEN Running ELSE Idle]
  /\ fs' = [src \in SourceSet |-> Idle]
  /\ fullSearch' = NoAggregate
  /\ ss_ret' = NoRet
  /\ ss_threw' = {}

\* analysis.searchTerms[0] || message.replace(/\?/g, '').trim(), line 610
SearchQuery(a, m) ==
  IF Len(a.searchTerms) > 0 /\ a.searchTerms[1] # ""
    THEN a.searchTerms[1] ELSE StripQuestion(m)

\* gatherKnowledge from the end of the fan-out wait (line 606) to its next
\* await or its return, with the promises fet and the map res
AfterWait(a, m, fet, res) ==
  /\ pendingAtWaitEnd' = {c \in AsyncCats : fet[c] = "pending"}
  /\ results' = res
  /\ IF \E c \in AsyncCats : fet[c] = "rejected"
       THEN gk_pc' = "rejected" /\ UNCHANGED ssVars
     ELSE IF needsWebSearchFallback(res) /\ (a.needsWebSearch \/ Len(a.searchTerms) > 0)
       THEN /\ gk_pc' = "fallback"
            /\ StartSmartSearch(SearchQuery(a, m), "gk")
       ELSE gk_pc' = "returned" /\ UNCHANGED ssVars

\* gatherKnowledge(message), lines 462-605: analysis, the synchronous date
\* and math results, the fetchers called, the deadline timer armed
GKStart(m, F, terms, mathOk) ==
  /\ gk_pc = "idle"
  /\ ss_pc = "idle"
  /\ AnalysisOk(m, F, terms)
  /\ LET a == MkAnalysis(F, terms)
         fet == [c \in AsyncCats |-> IF Issued(a, c) THEN "pending" ELSE "none"]
         res == (IF a.needsDate THEN {"date"} ELSE {})
                \cup (IF a.needsMath /\ a.mathExpression # Null /\ mathOk
                        THEN {"math"} ELSE {})
     IN /\ Cardinality(IssuedCats(a)) <= MaxFanOut
        /\ (~a.needsMath => mathOk)
        /\ analysis' = a
        /\ message' = m
        /\ fetchers' = fet
        /\ deadline' = "armed"
        /\ IF RaceResolves(PromiseAllSettled(fet), FALSE)
             THEN AfterWait(a, m, fet, res)
             ELSE /\ gk_pc' = "waiting"
                  /\ results' = res
                  /\ UNCHANGED <<pendingAtWaitEnd, ssVars>>
  /\ UNCHANGED cacheVars

\* the fetcher of category c completes: its .then / .catch handler runs
\* (lines 477-478 and alike), and so does the continuation of the fan-out
\* wait when this settles Promise.all
FetcherSettle(c, outcome) ==
  /\ fetchers[c] = "pending"
  /\ LET st == IF FetcherChain(outcome) = "rejected" THEN "rejected"
               ELSE IF outcome = "throw" THEN "threw" ELSE outcome
         fet == [fetchers EXCEPT ![c] = st]
         res == IF outcome = "value" /\ st # "rejected" THEN results \cup {c} ELSE results
     IN /\ fetchers' = fet
        /\ IF gk_pc = "waiting" /\ RaceResolves(PromiseAllSettled(fet), FALSE)
             THEN AfterWait(analysis, message, fet, res)
             ELSE /\ results' = res
                  /\ UNCHANGED <<gk_pc, pendingAtWaitEnd, ssVars>>
  /\ UNCHANGED <<analysis, message, deadline, cacheVars>>

\* the 6000 ms timer of line 604 fires
DeadlineFire ==
  /\ deadline = "armed"
  /\ deadline' = "fired"
  /\ IF gk_pc = "waiting" /\ RaceResolves(FALSE, TRUE)
       THEN AfterWait(analysis, message, fetchers, results)
       ELSE UNCHANGED <<gk_pc, pendingAtWaitEnd, results, ssVars>>
  /\ UNCHANGED <<analysis, message, fetchers, cacheVars>>

\* if (webSearchResult.found) results.webSearch = webSearchResult, lines
\* 614-617
StoreWebSearchAlways(res, ret) == res \cup {"webSearch"}
StoreWebSearch(res, ret) == IF ret.found THEN res \cup {"webSearch"} ELSE res

\* smartSearch returns ret; when gatherKnowledge awaits it, lines 614-623
\* run: results.webSearch is set if ret.found, and gatherKnowledge returns
Finish(ret) ==
  /\ ss_pc' = "done"
  /\ ss_ret' = ret
  /\ IF ss_caller = "gk"
       THEN /\ gk_pc' = "returned"
            /\ results' = StoreWebSearch(results, ret)
            /\ UNCHANGED <<analysis, message, fetchers, deadline, pendingAtWaitEnd>>
       ELSE UNCHANGED gkVars
  /\ UNCHANGED <<ss_query, ss_caller>>

\* GET /api/search/:query calls smartSearch (server, line 1174)
RouteSearch(q) ==
  /\ gk_pc = "idle"
  /\ ss_pc \in {"idle", "done", "rejected"}
  /\ stats.hits + stats.misses < MaxRequests
  /\ StartSmartSearch(q, "route")
  /\ UNCHANGED <<gkVars, cacheVars>>

\* an await of smartSearch throws (lines 406, 417, 430, 442: no try around
\* them): the promise smartSearch returned is rejected. gatherKnowledge
\* catches that (lines 617-619) and returns its results.
Reject ==
  /\ ss_pc' = "rejected"
  /\ IF ss_caller = "gk"
       THEN /\ gk_pc' = "returned"
            /\ UNCHANGED <<analysis, message, fetchers, results, deadline,
                           pendingAtWaitEnd>>
       ELSE UNCHANGED gkVars
  /\ UNCHANGED <<ss_query, ss_caller, ss_ret>>

\* the probes whose body threw, after step s ended with o
Threw(s, o) == IF o = Thrown THEN ss_threw \cup {s} ELSE ss_threw

\* step 1, lines 406-414: the body of searchDuckDuckGo ends with o
DdgDone(o) ==
  /\ ss_pc = "ddg"
  /\ ss_threw' = Threw("ddg", o)
  /\ LET r == ProbeCatch(o) IN
     IF r = Thrown
       THEN /\ chain' = [chain EXCEPT !["ddg"] = Settled(r)]
            /\ Reject
     ELSE IF DdgQualifies(r)
       THEN /\ chain' = [chain EXCEPT !["ddg"] = Settled(r)]
            /\ Finish(Ret(TRUE, r, <<>>))
       ELSE /\ chain' = [chain EXCEPT !["ddg"] = Settled(r), !["wiki"] = Running]
            /\ ss_pc' = "wiki"
            /\ UNCHANGED <<ss_query, ss_caller, ss_ret, gkVars>>
  /\ UNCHANGED <<fs, fullSearch, cacheVars>>

\* step 2, lines 417-425, then line 428 and the call of step 3 or step 4
WikiDone(o) ==
  /\ ss_pc = "wiki"
  /\ ss_threw' = Threw("wiki", o)
  /\ LET r == ProbeCatch(o) IN
     IF r = Thrown
       THEN /\ chain' = [chain EXCEPT !["wiki"] = Settled(r)]
            /\ Reject
     ELSE IF WikiQualifies(r)
       THEN /\ chain' = [chain EXCEPT !["wiki"] = Settled(r)]
            /\ Finish(Ret(TRUE, r, <<>>))
       ELSE /\ chain' = [chain EXCEPT !["wiki"] = Settled(r),
                                      ![AfterWiki(ss_query)] = Running]
            /\ ss_pc' = AfterWiki(ss_query)
            /\ UNCHANGED <<ss_query, ss_caller, ss_ret, gkVars>>
  /\ UNCHANGED <<fs, fullSearch, cacheVars>>

\* step 3, lines 430-438, then the call of step 4
DictDone(o) ==
  /\ ss_pc = "dict"
  /\ ss_threw' = Threw("dict", o)
  /\ LET r == ProbeCatch(o) IN
     IF r = Thrown
       THEN /\ chain' = [chain EXCEPT !["dict"] = Settled(r)]
            /\ Reject
     ELSE IF ProbeFound(r)
       THEN /\ chain' = [chain EXCEPT !["dict"] = Settled(r)]
            /\ Finish(Ret(TRUE, r, <<>>))
       ELSE /\ chain' = [chain EXCEPT !["dict"] = Settled(r), !["stack"] = Running]
            /\ ss_pc' = "stack"
            /\ UNCHANGED <<ss_query, ss_caller, ss_ret, gkVars>>
  /\ UNCHANGED <<fs, fullSearch, cacheVars>>

\* step 4, lines 442-450, then performWebSearch up to its first await
\* (lines 10-36): the cache probe, and on a miss the five source calls
StackDone(o) ==
  /\ ss_pc = "stack"
  /\ ss_threw' = Threw("stack", o)
  /\ LET r == ProbeCatch(o) IN
     IF r = Thrown
       THEN /\ chain' = [chain EXCEPT !["stack"] = Settled(r)]
            /\ Reject
            /\ UNCHANGED <<fs, fullSearch, cacheVars>>
     ELSE IF ProbeFound(r)
       THEN /\ chain' = [chain EXCEPT !["stack"] = Settled(r)]
            /\ Finish(Ret(TRUE, r, <<>>))
            /\ UNCHANGED <<fs, fullSearch, cacheVars>>
       ELSE LET key == WebSearchKey(ss_query) IN
            /\ cache' = GetCache(cache, key, WEBSEARCH_TTL, now)
            /\ stats' = GetStats(stats, cache, key, WEBSEARCH_TTL, now)
            /\ lastOp' = Op("get", key, WEBSEARCH_TTL, "data",
                            EntryOf(cache, key), key \in DOMAIN cache, 0, FALSE)
            /\ UNCHANGED <<now, timers>>
            /\ IF GetHit(cache, key, WEBSEARCH_TTL, now)
                 THEN /\ chain' = [chain EXCEPT !["stack"] = Settled(r),
                                     !["full"] = Settled(cache[key].data.bestAnswer)]
                      /\ fullSearch' = cache[key].data
                      /\ Finish(FromFullSearch(cache[key].data))
                      /\ UNCHANGED fs
                 ELSE /\ chain' = [chain EXCEPT !["stack"] = Settled(r),
                                                !["full"] = Running]
                      /\ fs' = [src \in SourceSet |-> Running]
                      /\ ss_pc' = "full"
                      /\ UNCHANGED <<ss_query, ss_caller, ss_ret, fullSearch, gkVars>>

\* Promise.allSettled(searchPromises) resolves (line 36): the body of
\* source i has ended with outs[i]. No code of the server runs when a single
\* source answers; performWebSearch runs on from here (lines 38-54): it
\* collects, ranks, caches and returns, and smartSearch returns (lines
\* 454-476).
FullSearchDone(outs) ==
  /\ ss_pc = "full"
  /\ ss_threw' = IF \E i \in 1..Len(Sources) : outs[i] = Thrown
                   THEN ss_threw \cup {"full"} ELSE ss_threw
  /\ LET f2 == [src \in SourceSet |->
                 Settled(ProbeCatch(outs[CHOOSE i \in 1..Len(Sources) : Sources[i] = src]))]
         all == Collect(f2, 1)
         agg == Aggregate(ss_query, all, determineBestAnswer(all))
         key == WebSearchKey(ss_query)
     IN /\ fs' = f2
        /\ fullSearch' = agg
        /\ chain' = [chain EXCEPT !["full"] = Settled(agg.bestAnswer)]
        /\ IF ShouldCache(agg)
             THEN /\ cache' = SetCache(cache, stats, key, agg, WEBSEARCH_TTL, now)
                  /\ stats' = SetStats(stats)
                  /\ timers' = SetTimers(timers, stats, key, WEBSEARCH_TTL, now)
                  /\ lastOp' = Op("set", key, WEBSEARCH_TTL, "data",
                                  EntryOf(cache, key), key \in DOMAIN cache, 0, FALSE)
                  /\ UNCHANGED now
             ELSE UNCHANGED cacheVars
        /\ Finish(FromFullSearch(agg))

\* searchWikipedia called by step 2, lines 135-149: the opensearch request
\* was answered with a match, and the summary request is sent; it carries
\* no timeout option
WikiSummary ==
  /\ ss_pc = "wiki"
  /\ chain["wiki"] = Running
  /\ chain' = [chain EXCEPT !["wiki"].st = "summary"]
  /\ UNCHANGED <<ss_pc, ss_query, ss_caller, fs, fullSearch, ss_ret, ss_threw,
                 gkVars, cacheVars>>

\* the same inside performWebSearch (line 30)
FullWikiSummary ==
  /\ ss_pc = "full"
  /\ fs["wiki"] = Running
  /\ fs' = [fs EXCEPT !["wiki"].st = "summary"]
  /\ UNCHANGED <<ss_pc, ss_query, ss_caller, chain, fullSearch, ss_ret, ss_threw,
                 gkVars, cacheVars>>

\* the `timeout: 5000` of a request in flight expires (lines 63, 137, 178,
\* 217, 314): fetch rejects and the body of the source function throws
TimerFires ==
  \/ DdgDone(Thrown)
  \/ chain["wiki"].st = "running" /\ WikiDone(Thrown)
  \/ DictDone(Thrown)
  \/ StackDone(Thrown)
  \/ fs["wiki"].st = "running" /\ FullSearchDone(<<Thrown, Thrown, Thrown, Thrown, Thrown>>)

\* ------------------------------------------------- the cached fetchers
\* getWeather (weatherService.js), getExchangeRates (financeService.js) and
\* performWebSearch, as users of the cache
FetcherCats == {"weather", "exchange", "websearch"}

\* the identifiers they are called with: "a b", "A b", "a  b"
FetcherIds == {<<"a", " ", "b">>, <<"A", " ", "b">>, <<"a", " ", " ", "b">>}

\* s.replace(/\s+/g, '_')
RECURSIVE UnderscoreRuns(_)
UnderscoreRuns(s) ==
  IF s = <<>> THEN <<>>
  ELSE IF Head(s) = " " THEN <<"_">> \o UnderscoreRuns(TrimLeft(s))
  ELSE <<Head(s)>> \o UnderscoreRuns(Tail(s))

\* const cacheKey = ... of each fetcher
CacheKeyOf(cat, id) ==
  CASE cat = "weather" -> <<"w", "e", "a", "t", "h", "e", "r", "_">> \o ToLower(id)
    [] cat = "exchange" -> <<"e", "x", "c", "h", "a", "n", "g", "e", "_">> \o id
    [] cat = "websearch" -> <<"w", "e", "b", "s", "e", "a", "r", "c", "h", "_">> \o UnderscoreRuns(ToLower(id))

\* the maxAge of their cache.get and the ttl of their cache.set
FetcherTtl(cat) ==
  CASE cat = "weather" -> 600000
    [] cat = "exchange" -> 3600000
    [] cat = "websearch" -> WEBSEARCH_TTL

\* a call of a fetcher: its arguments, its position, whether it was served
\* from the cache and by which entry, what it returned ("none" while it
\* runs), and what it did to the cache map itself: evicted is set when its
\* cache.get deleted an entry, stored when it called cache.set
Fetch(cat, id, st, served, from) ==
  [cat |-> cat, id |-> id, st |-> st, served |-> served, from |-> from,
   ret |-> IF served THEN "data" ELSE "none", evicted |-> FALSE, stored |-> FALSE]

NoFetch == Fetch("none", <<>>, "idle", FALSE, <<>>)

\* a fetcher is called with id: it returns the cached value on a hit
\* (`from` is the identifier of the call that stored it), else it sends its
\* request
FetchStart(cat, id) ==
  /\ fx.st \in {"idle", "done"}
  /\ stats.hits + stats.misses < MaxRequests
  /\ LET key == CacheKeyOf(cat, id) IN
     /\ cache' = GetCache(cache, key, FetcherTtl(cat), now)
     /\ stats' = GetStats(stats, cache, key, FetcherTtl(cat), now)
     /\ lastOp' = Op("get", key, FetcherTtl(cat), "data", EntryOf(cache, key),
                     key \in DOMAIN cache, 0, FALSE)
     /\ fx' = IF GetHit(cache, key, FetcherTtl(cat), now)
                THEN Fetch(cat, id, "done", TRUE, cache[key].data.id)
                ELSE [Fetch(cat, id, "fetching", FALSE, <<>>)
                        EXCEPT !.evicted = key \in DOMAIN cache]
  /\ UNCHANGED <<now, timers>>

\* the value a fetcher has in hand when its request is over: the result it
\* built, or nothing
NoData == [cat |-> "null", id |-> <<>>]
FetchedData(ok, cat, id) == IF ok THEN [cat |-> cat, id |-> id] ELSE NoData

\* whether the fetcher reaches its cache.set: not after `return null` on an
\* unusable payload, and not from its catch block
StoresAlways(ok) == TRUE
StoresResult(ok) == ok

\* the request is answered: with a result, which is stored and returned, or
\* with an error, and the fetcher returns null
FetchDone(ok) ==
  /\ fx.st = "fetching"
  /\ fx' = [fx EXCEPT !.st = "done", !.ret = IF ok THEN "data" ELSE "null",
                      !.stored = StoresResult(ok)]
  /\ IF StoresResult(ok)
       THEN LET key == CacheKeyOf(fx.cat, fx.id) IN
            /\ cache' = SetCache(cache, stats, key, FetchedData(ok, fx.cat, fx.id),
                                 FetcherTtl(fx.cat), now)
            /\ stats' = SetStats(stats)
            /\ timers' = SetTimers(timers, stats, key, FetcherTtl(fx.cat), now)
            /\ lastOp' = Op("set", key, FetcherTtl(fx.cat), "data", EntryOf(cache, key),
                            key \in DOMAIN cache, 0, FALSE)
            /\ UNCHANGED now
       ELSE UNCHANGED cacheVars

\* time passes between two events of the server
ElapseStep == WEBSEARCH_TTL \div 2
Elapse ==
  /\ now < MaxTime * ElapseStep
  /\ now' = now + ElapseStep
  /\ lastOp' = NoOp
  /\ UNCHANGED <<cache, timers, stats, ssVars, gkVars>>

Init ==
  /\ CacheInit
  /\ ss_pc = "idle"
  /\ ss_query = ""
  /\ ss_caller = "none"
  /\ chain = [s \in Steps |-> Idle]
  /\ fs = [src \in SourceSet |-> Idle]
  /\ fullSearch = NoAggregate
  /\ ss_ret = NoRet
  /\ ss_threw = {}
  /\ gk_pc = "idle"
  /\ analysis = NoAnalysis
  /\ message = "msg"
  /\ fetchers = [c \in AsyncCats |-> "none"]
  /\ results = {}
  /\ deadline = "unset"
  /\ pendingAtWaitEnd = {}
  /\ aq_pc = 0
  /\ aq_in = MkInput({}, FALSE, FALSE, FALSE, "hi", "hi")
  /\ aq = InitialAnalysis
  /\ fx = NoFetch

CacheNext ==
  \/ \E k \in Keys, a \in Durations : Get(k, a) /\ UNCHANGED <<ssVars, gkVars, aqVars, fxVars>>
  \/ \E k \in Keys, v \in Values, ttl \in Durations :
       Set(k, v, ttl) /\ UNCHANGED <<ssVars, gkVars, aqVars, fxVars>>
  \/ \E k \in Keys, a \in Durations : Has(k, a) /\ UNCHANGED <<ssVars, gkVars, aqVars, fxVars>>
  \/ \E k \in Keys : Delete(k) /\ UNCHANGED <<ssVars, gkVars, aqVars, fxVars>>
  \/ Clear /\ UNCHANGED <<ssVars, gkVars, aqVars, fxVars>>
  \/ \E i \in 1..MaxSets : Cleanup(i) /\ UNCHANGED <<ssVars, gkVars, aqVars, fxVars>>
  \/ Tick /\ UNCHANGED <<ssVars, gkVars, aqVars, fxVars>>

\* the fallback chain, whoever called it; X is {Thrown} where the failures
\* of the source bodies are told apart from their null results, {} where a
\* failure is one more way for a source to return null
ChainOn(X) ==
  \/ \E o \in DdgOutcomes \cup X : DdgDone(o) /\ UNCHANGED <<aqVars, fxVars>>
  \/ \E o \in WikiOutcomes \cup X : WikiDone(o) /\ UNCHANGED <<aqVars, fxVars>>
  \/ \E o \in DictOutcomes \cup X : DictDone(o) /\ UNCHANGED <<aqVars, fxVars>>
  \/ \E o \in StackOutcomes(ss_query) \cup X : StackDone(o) /\ UNCHANGED <<aqVars, fxVars>>
  \/ \E d \in DdgOutcomes \cup X, w \in WikiOutcomes \cup X,
        e \in ExtractsOutcomes \cup X, k \in StackOutcomes(ss_query) \cup X,
        f \in WolframOutcomes \cup X :
       FullSearchDone(<<d, w, e, k, f>>) /\ UNCHANGED <<aqVars, fxVars>>

ChainNext == ChainOn({})

\* the search route, called again and again while time passes
SearchNext ==
  \/ \E q \in RouteQueries : RouteSearch(q) /\ UNCHANGED <<aqVars, fxVars>>
  \/ ChainNext
  \/ Elapse /\ UNCHANGED <<aqVars, fxVars>>
  \/ \E i \in 1..MaxRequests : Cleanup(i) /\ UNCHANGED <<ssVars, gkVars, aqVars, fxVars>>

\* the cache used with one ttl: every set and every get passes SameTtl
SameTtl == MaxTime
LastWriteNext ==
  \/ \E k \in Keys, v \in Values :
       Set(k, v, SameTtl) /\ UNCHANGED <<ssVars, gkVars, aqVars, fxVars>>
  \/ \E k \in Keys : Get(k, SameTtl) /\ UNCHANGED <<ssVars, gkVars, aqVars, fxVars>>
  \/ \E i \in 1..MaxSets : Cleanup(i) /\ UNCHANGED <<ssVars, gkVars, aqVars, fxVars>>
  \/ Tick /\ UNCHANGED <<ssVars, gkVars, aqVars, fxVars>>

\* every operation of the cache, with one duration
StatsNext ==
  \/ \E k \in Keys : Get(k, SameTtl) /\ UNCHANGED <<ssVars, gkVars, aqVars, fxVars>>
  \/ \E k \in Keys, v \in Values :
       Set(k, v, SameTtl) /\ UNCHANGED <<ssVars, gkVars, aqVars, fxVars>>
  \/ \E k \in Keys : Has(k, SameTtl) /\ UNCHANGED <<ssVars, gkVars, aqVars, fxVars>>
  \/ \E k \in Keys : Delete(k) /\ UNCHANGED <<ssVars, gkVars, aqVars, fxVars>>
  \/ Clear /\ UNCHANGED <<ssVars, gkVars, aqVars, fxVars>>
  \/ keys /\ UNCHANGED <<ssVars, gkVars, aqVars, fxVars>>
  \/ getStats /\ UNCHANGED <<ssVars, gkVars, aqVars, fxVars>>
  \/ \E i \in 1..MaxSets : Cleanup(i) /\ UNCHANGED <<ssVars, gkVars, aqVars, fxVars>>
  \/ Tick /\ UNCHANGED <<ssVars, gkVars, aqVars, fxVars>>

\* the search route with the failures of the sources made explicit
FaultNext ==
  \/ \E q \in RouteQueries : RouteSearch(q) /\ UNCHANGED <<aqVars, fxVars>>
  \/ ChainOn({Thrown})

\* the search route with the requests of searchWikipedia told apart
TimeoutNext ==
  \/ \E q \in RouteQueries : RouteSearch(q) /\ UNCHANGED <<aqVars, fxVars>>
  \/ ChainOn({Thrown})
  \/ WikiSummary /\ UNCHANGED <<aqVars, fxVars>>
  \/ FullWikiSummary /\ UNCHANGED <<aqVars, fxVars>>

\* the weather, exchange rate and web search fetchers called one after the
\* other, within the time every entry is kept
KeyNext ==
  \/ \E c \in FetcherCats, id \in FetcherIds :
       FetchStart(c, id) /\ UNCHANGED <<ssVars, gkVars, aqVars>>
  \/ \E ok \in BOOLEAN : FetchDone(ok) /\ UNCHANGED <<ssVars, gkVars, aqVars>>

\* the fetchers called one after the other while time passes and the
\* cleanup timers of their cache.set run
FetcherNext ==
  \/ \E c \in FetcherCats, id \in FetcherIds :
       FetchStart(c, id) /\ UNCHANGED <<ssVars, gkVars, aqVars>>
  \/ \E ok \in BOOLEAN : FetchDone(ok) /\ UNCHANGED <<ssVars, gkVars, aqVars>>
  \/ Elapse /\ UNCHANGED <<aqVars, fxVars>>
  \/ \E i \in 1..MaxRequests : Cleanup(i) /\ UNCHANGED <<ssVars, gkVars, aqVars, fxVars>>

\* analyzeQuery, called on one message after the other
AnalyzeNext ==
  \/ \E in \in Inputs : AnalyzeStart(in) /\ UNCHANGED <<cacheVars, ssVars, gkVars, fxVars>>
  \/ AnalyzeGroup /\ UNCHANGED <<cacheVars, ssVars, gkVars, fxVars>>
  \/ AnalyzeReturn /\ UNCHANGED <<cacheVars, ssVars, gkVars, fxVars>>

\* one gatherKnowledge call with its fallback
Next ==
  \/ \E m \in Messages, F \in SUBSET FlagChoices, t \in TermChoices, ok \in BOOLEAN :
       GKStart(m, F, t, ok) /\ UNCHANGED <<aqVars, fxVars>>
  \/ \E c \in AsyncCats, o \in {"value", "null", "throw"} :
       FetcherSettle(c, o) /\ UNCHANGED <<aqVars, fxVars>>
  \/ DeadlineFire /\ UNCHANGED <<aqVars, fxVars>>
  \/ ChainNext

vars == <<now, cache, timers, stats, lastOp,
          ss_pc, ss_query, ss_caller, chain, fs, fullSearch, ss_ret, ss_threw,
          gk_pc, analysis, message, fetchers, results, deadline, pendingAtWaitEnd,
          aq_pc, aq_in, aq, fx>>

CacheSpec == Init /\ [][CacheNext]_vars

LastWriteSpec == Init /\ [][LastWriteNext]_vars

AnalyzeSpec == Init /\ [][AnalyzeNext]_vars

SearchSpec == Init /\ [][SearchNext]_vars

KeySpec == Init /\ [][KeyNext]_vars

FetcherSpec == Init /\ [][FetcherNext]_vars

StatsSpec == Init /\ [][StatsNext]_vars

FaultSpec == Init /\ [][FaultNext]_vars

Spec == Init /\ [][Next]_vars

\* the event loop runs a timer that is due, and every upstream request of
\* the fallback chain is answered (or fails); nothing is assumed of the
\* fetchers of gatherKnowledge
FairSpec ==
  /\ Spec
  /\ WF_vars(DeadlineFire /\ UNCHANGED <<aqVars, fxVars>>)
  /\ WF_vars(ChainNext)

\* the upstream sources may never answer; a timer that is armed fires
TimeoutSpec ==
  /\ Init
  /\ [][TimeoutNext]_vars
  /\ WF_vars(TimerFires /\ UNCHANGED <<aqVars, fxVars>>)

\* ------------------------------------------------------- claims: SmartCache

\* C2 (as claimed): a cleanup callback never removes an entry written by a
\* set call later than the one that scheduled it.
C2_CleanupSparesLaterSet ==
  (lastOp.op = "cleanup" /\ lastOp.removed) => ~(lastOp.pre.seq > lastOp.tseq)

\* C3: get(key, maxAge) returns data only when the entry is present and its
\* age at the call (now - timestamp) is strictly below maxAge, whatever ttl
\* the entry was stored with; at age >= maxAge it returns null. The data
\* returned is the entry's.
C3_GetWithinMaxAge ==
  lastOp.op = "get" =>
    /\ lastOp.ret # Null =>
         /\ lastOp.present
         /\ lastOp.at - lastOp.pre.timestamp < lastOp.arg
         /\ lastOp.ret = lastOp.pre.data
    /\ (lastOp.present /\ lastOp.at - lastOp.pre.timestamp >= lastOp.arg) =>
         lastOp.ret = Null

\* C3 witness: an entry stored with a ttl larger than maxAge is probed once
\* maxAge has elapsed, and get answers null.
C3_Witness ==
  /\ lastOp.op = "get"
  /\ lastOp.present
  /\ lastOp.pre.ttl > lastOp.arg
  /\ lastOp.at - lastOp.pre.timestamp >= lastOp.arg
  /\ lastOp.ret = Null

\* C4 (as claimed): an entry whose age has reached its own ttl is reported
\* present by neither get nor has, for every maxAge.
C4_ExpiredEntryIsGone ==
  ( /\ lastOp.op \in {"get", "has"}
    /\ lastOp.present
    /\ lastOp.at - lastOp.pre.timestamp >= lastOp.pre.ttl )
  => lastOp.ret \in {Null, "false"}

\* C15: a get(k, ttl) that runs right after set(k, v, ttl), with no clock
\* advance and no cache operation in between, returns v; set returned v.
C15_RoundTrip ==
  [][(/\ lastOp.op = "set"
      /\ lastOp'.op = "get"
      /\ lastOp'.key = lastOp.key
      /\ lastOp'.arg = lastOp.arg)
     => (/\ lastOp.ret \in Values
         /\ lastOp'.ret = lastOp.ret
         /\ lastOp'.pre.data = lastOp.ret)]_vars

\* C15 witness: get has returned the data of an entry written at the same
\* instant with a ttl equal to its maxAge.
C15_Witness ==
  /\ lastOp.op = "get"
  /\ lastOp.present
  /\ lastOp.pre.timestamp = lastOp.at
  /\ lastOp.pre.ttl = lastOp.arg
  /\ lastOp.ret = lastOp.pre.data
  /\ lastOp.ret \in Values

\* C16: when every set and get passes the same ttl, a get(k, ttl) issued
\* while the entry of the latest set on k is younger than ttl (the timer of
\* that set is not due yet) returns the data of that set, and the entry it
\* finds carries the timestamp of that set.
C16_LastWriteWins ==
  LET young == {i \in 1..Len(timers) :
                  timers[i].key = lastOp.key /\ timers[i].due > lastOp.at}
      latest == CHOOSE i \in young : \A j \in young : timers[j].seq <= timers[i].seq
  IN (lastOp.op = "get" /\ young # {}) =>
       /\ lastOp.present
       /\ lastOp.pre.seq = timers[latest].seq
       /\ lastOp.pre.timestamp = timers[latest].due - timers[latest].ttl
       /\ lastOp.ret = lastOp.pre.data
       /\ lastOp.ret \in Values

\* C16 witness: two sets wrote k, the clock advanced, and get returned the
\* data of the second.
C16_Witness ==
  /\ lastOp.op = "get"
  /\ lastOp.pre.seq = 2
  /\ lastOp.ret = "v2"
  /\ lastOp.at > lastOp.pre.timestamp
  /\ Len(timers) = 2
  /\ \A i \in 1..2 : timers[i].key = lastOp.key

\* C17: every get adds one to hits when it returns data and one to misses
\* when it returns null, and nothing else to the counters; a get that finds
\* an entry of age >= maxAge returns null and removes exactly that entry.
C17_GetEvictsAndCounts ==
  [][lastOp'.op = "get" =>
       /\ stats'.hits = stats.hits + (IF lastOp'.ret # Null THEN 1 ELSE 0)
       /\ stats'.misses = stats.misses + (IF lastOp'.ret # Null THEN 0 ELSE 1)
       /\ stats'.sets = stats.sets
       /\ (lastOp'.present /\ lastOp'.at - lastOp'.pre.timestamp >= lastOp'.arg) =>
            /\ lastOp'.ret = Null
            /\ lastOp'.key \in DOMAIN cache
            /\ DOMAIN cache' = DOMAIN cache \ {lastOp'.key}
            /\ Cardinality(DOMAIN cache') = Cardinality(DOMAIN cache) - 1
            /\ \A k \in DOMAIN cache' : cache'[k] = cache[k]]_vars

\* C17 witness: get found an entry as old as its maxAge, returned null and
\* counted a miss; the key is gone.
C17_Witness ==
  /\ lastOp.op = "get"
  /\ lastOp.present
  /\ lastOp.at - lastOp.pre.timestamp >= lastOp.arg
  /\ lastOp.ret = Null
  /\ lastOp.key \notin DOMAIN cache
  /\ stats.misses = 1

\* C18: a get, set, delete or cleanup callback on key k leaves the entry of
\* every other key as it was (present or absent); set on k stores its data
\* argument for k, and no other step writes or alters a stored entry, so the
\* data stored for k is always that of the most recent set on k.
C18_KeysAreIndependent ==
  [][\A k \in Keys :
       /\ (lastOp'.op \in {"get", "set", "delete", "cleanup"} /\ lastOp'.key # k) =>
            /\ (k \in DOMAIN cache') = (k \in DOMAIN cache)
            /\ EntryOf(cache', k) = EntryOf(cache, k)
       /\ (lastOp'.op = "set" /\ lastOp'.key = k) =>
            /\ k \in DOMAIN cache'
            /\ cache'[k].data = lastOp'.ret
            /\ cache'[k].seq = stats'.sets
       /\ (~(lastOp'.op = "set" /\ lastOp'.key = k) /\ k \in DOMAIN cache') =>
            /\ k \in DOMAIN cache
            /\ cache'[k] = cache[k]]_vars

\* C18 witness: a get, delete or cleanup callback has removed the entry of
\* its key while another key keeps the entry an earlier set stored.
C18_Witness ==
  /\ lastOp.op \in {"get", "delete", "cleanup"}
  /\ lastOp.present
  /\ lastOp.key \notin DOMAIN cache
  /\ \E k \in DOMAIN cache : k # lastOp.key /\ cache[k].data \in Values

\* -------------------------------------------------- claims: gatherKnowledge

\* C1 (as claimed): once the fan-out wait has ended, a category whose
\* fetcher was still pending at that moment is not in the result map, and
\* never gets into it, neither while the fallback smartSearch is awaited nor
\* after gatherKnowledge has returned.
C1_LateFetcherStaysAbsent ==
  gk_pc \in {"fallback", "returned"} => results \cap pendingAtWaitEnd = {}

\* C5: gatherKnowledge never rejects, whatever its fetchers do (value, null,
\* exception), and the map it returns holds every category whose fetcher
\* completed with a non-null value before the fan-out wait ended.
C5_FaultIsolation ==
  /\ gk_pc # "rejected"
  /\ gk_pc = "returned" =>
       \A c \in AsyncCats :
         (fetchers[c] = "value" /\ c \notin pendingAtWaitEnd) => c \in results

\* C5 witness: three fetchers were issued; one threw, the two others
\* completed with a value before the wait ended, and gatherKnowledge has
\* returned a map with both.
C5_Witness ==
  /\ gk_pc = "returned"
  /\ pendingAtWaitEnd = {}
  /\ \E c \in AsyncCats :
       /\ fetchers[c] = "threw"
       /\ Cardinality({d \in AsyncCats \ {c} : fetchers[d] = "value" /\ d \in results}) = 2

C13_FallbackOnKnowledgeNeed ==
  LET emptyAtWaitEnd ==
        /\ results \cap {"date", "math"} = {}
        /\ \A c \in AsyncCats : fetchers[c] = "value" => c \in pendingAtWaitEnd
  IN (/\ gk_pc \in {"fallback", "returned"}
      /\ emptyAtWaitEnd
      /\ (analysis.needsWebSearch \/ analysis.needsWikipedia))
     => /\ ss_caller = "gk"
        /\ ss_pc # "idle"
        /\ ss_query = IF Len(analysis.searchTerms) > 0
                        THEN analysis.searchTerms[1]
                        ELSE StripQuestion(message)

\* ------------------------------------------------------ claims: smartSearch

\* C7: the probes of smartSearch start in the order ddg, wiki, dict, stack,
\* full. A probe that has been started finds every earlier probe completed
\* without a qualifying result (an instant_answer or abstract for ddg, any
\* result for the others), the dictionary probe being left out for a query
\* that is not a definition query; at most one probe is in flight.
C7_ProbesInOrder ==
  LET order == <<"ddg", "wiki", "dict", "stack", "full">>
      qualifying(j) ==
        /\ chain[order[j]].res # NoResult
        /\ (j = 1) => chain[order[j]].res.type \in {"instant_answer", "abstract"}
      passed(j) ==
        \/ chain[order[j]].st = "done" /\ ~qualifying(j)
        \/ /\ order[j] = "dict"
           /\ chain["dict"].st = "idle"
           /\ ~IsDefineQuery(ss_query)
  IN /\ \A i \in 1..5 : chain[order[i]].st # "idle" =>
          \A j \in 1..(i - 1) : passed(j)
     /\ Cardinality({i \in 1..5 : chain[order[i]].st = "running"}) <= 1

\* C7 witness: the chain of a definition query went through its five steps;
\* the direct-answer probe returned a related-topics result, which does not
\* qualify.
C7_Witness ==
  /\ ss_pc = "done"
  /\ chain["ddg"].res.type = "related"
  /\ \A s \in Steps : chain[s].st = "done"

\* C8 (as claimed): whenever searchDuckDuckGo has returned a result in step
\* 1, smartSearch has returned found=true and no other probe was called.
C8_AnyDdgResultShortCircuits ==
  (chain["ddg"].st = "done" /\ chain["ddg"].res # NoResult) =>
    /\ ss_pc = "done"
    /\ ss_ret.found
    /\ \A s \in {"wiki", "dict", "stack"} : chain[s].st = "idle"

\* C8 (amended): whenever searchDuckDuckGo has returned a result of type
\* instant_answer or abstract in step 1, smartSearch has returned found=true
\* with that result, and neither another probe nor the full search was
\* called.
C8_QualifyingDdgShortCircuits ==
  (chain["ddg"].st = "done" /\ chain["ddg"].res.type \in {"instant_answer", "abstract"}) =>
    /\ ss_pc = "done"
    /\ ss_ret = Ret(TRUE, chain["ddg"].res, <<>>)
    /\ \A s \in Steps \ {"ddg"} : chain[s].st = "idle"
    /\ \A src \in SourceSet : fs[src].st = "idle"

\* C8 witness: searchDuckDuckGo returned an abstract and smartSearch
\* returned it.
C8_Witness ==
  /\ ss_pc = "done"
  /\ chain["ddg"] = Settled(Result("abstract", 85, "DuckDuckGo"))
  /\ ss_ret.found

\* C9 (as claimed): when the full search collected results and all of them
\* are related-topics lists or raw search results, smartSearch returns
\* found=false with these results as partialResults and no result.
C9_OnlyPartialResults ==
  (/\ ss_pc = "done"
   /\ chain["full"].st = "done"
   /\ fullSearch.allResults # <<>>
   /\ \A i \in 1..Len(fullSearch.allResults) :
        fullSearch.allResults[i].type \in {"related", "search_results"})
  => ss_ret = Ret(FALSE, NoResult, fullSearch.allResults)

\* C10 (as claimed): no collected result of the same confidence as
\* bestAnswer comes before it in the priority order direct-answer >
\* encyclopedia > dictionary > tech-QA > related-topics > raw-search-results.
C10_TieBreakByPriority ==
  LET rank(r) ==
        CASE r.type \in {"instant_answer", "abstract", "definition"} -> 1
          [] r.type = "encyclopedia" -> 2
          [] r.type = "dictionary" -> 3
          [] r.type \in {"stackoverflow_answer", "stackoverflow_question"} -> 4
          [] r.type = "related" -> 5
          [] r.type = "search_results" -> 6
  IN fullSearch.allResults # <<>> =>
       \A i \in 1..Len(fullSearch.allResults) :
         fullSearch.allResults[i].confidence = fullSearch.bestAnswer.confidence =>
           rank(fullSearch.bestAnswer) <= rank(fullSearch.allResults[i])

\* ---------------------------------------------- claims: determineBestAnswer

\* C11: whenever performWebSearch collected results, bestAnswer has the
\* greatest confidence of the collected results, and its type, source and
\* confidence are those of one collected result.
C11_BestHasMaxConfidence ==
  fullSearch.allResults # <<>> =>
    LET all == fullSearch.allResults
        best == fullSearch.bestAnswer
    IN /\ best # NoResult
       /\ \A i \in 1..Len(all) : all[i].confidence <= best.confidence
       /\ \E i \in 1..Len(all) :
            /\ all[i].confidence = best.confidence
            /\ all[i].type = best.type
            /\ all[i].source = best.source

\* C11 witness: a related-topics result (0.6) was collected first and an
\* encyclopedia result (0.9) after it; bestAnswer is the encyclopedia one.
C11_Witness ==
  /\ Len(fullSearch.allResults) >= 2
  /\ fullSearch.allResults[1].type = "related"
  /\ fullSearch.allResults[2].type = "encyclopedia"
  /\ fullSearch.bestAnswer = Result("encyclopedia", 90, "Wikipedia")

\* ----------------------------------------------------- claims: analyzeQuery

\* C12 (as claimed): once primaryIntent is set, no rule group evaluated
\* later changes primaryIntent or confidence.
C12_IntentSetOnce ==
  [][(aq_pc \in 1..NGroups /\ aq.primaryIntent # Null) =>
       (aq'.primaryIntent = aq.primaryIntent /\ aq'.confidence = aq.confidence)]_vars

\* C14 (as claimed): for every category flag analyzeQuery returns true,
\* gatherKnowledge calls the fetcher of the category, or computes the
\* category itself for date and math (needsWebSearch names no category).
C14_EveryFlagIssued ==
  LET a == Returned(aq)
      cat(f) ==
        CASE f = "needsTime" -> "time"
          [] f = "needsWeather" -> "weather"
          [] f = "needsCurrency" -> "currency"
          [] f = "needsCrypto" -> "crypto"
          [] f = "needsDictionary" -> "dictionary"
          [] f = "needsQuote" -> "quote"
          [] f = "needsJoke" -> "joke"
          [] f = "needsTrivia" -> "trivia"
          [] f = "needsWikipedia" -> "wikipedia"
      handled(f) ==
        CASE f = "needsDate" -> a.needsDate
          [] f = "needsMath" -> a.needsMath /\ a.mathExpression # Null
          [] OTHER -> Issued(a, cat(f))
  IN aq_pc = NGroups + 1 =>
       \A f \in aq.flags \ {"needsWebSearch"} : handled(f)

\* C19: smartSearch never rejects. A probe whose body threw has resolved to
\* null: steps 1-4 went on to the next step, and in the full search the
\* results of the other sources are all collected. What smartSearch returns
\* has found = true with a result, or found = false and no result.
C19_NeverRejects ==
  /\ ss_pc # "rejected"
  /\ \A s \in ss_threw \ {"full"} :
       /\ chain[s] = Settled(NoResult)
       /\ chain[CASE s = "ddg" -> "wiki"
                  [] s = "wiki" -> AfterWiki(ss_query)
                  [] s = "dict" -> "stack"
                  [] s = "stack" -> "full"].st # "idle"
  /\ "full" \in ss_threw =>
       /\ \A src \in SourceSet : fs[src].st = "done" /\ fs[src].res # Thrown
       /\ fullSearch.allResults = Collect(fs, 1)
  /\ ss_pc = "done" =>
       \/ ss_ret.found /\ ss_ret.result \notin {NoResult, Thrown}
       \/ ~ss_ret.found /\ ss_ret.result = NoResult

\* C19 witness: the body of the direct-answer probe threw and the call
\* returned what the encyclopedia probe found.
C19_Witness ==
  /\ ss_pc = "done"
  /\ "ddg" \in ss_threw
  /\ ss_ret.found
  /\ ss_ret.result.source = "Wikipedia"

\* C20 (as claimed): within one smartSearch call no source probed in steps
\* 1 to 4 (direct-answer, encyclopedia, tech-QA) is invoked again by the
\* full search of step 5.
C20_NoSourceProbedTwice ==
  \A s \in {"ddg", "wiki", "stack"} :
    ~(chain[s].st # "idle" /\ fs[s].st # "idle")

\* C21 (as claimed): every request of the chain is bounded by a timeout, so
\* a smartSearch call that has started eventually returns, whether or not
\* the upstream sources answer.
C21_SmartSearchReturns ==
  (ss_pc \in {"ddg", "wiki", "dict", "stack", "full"}) ~> (ss_pc \in {"done", "rejected"})

\* C22: for a query without any of the technology keywords ("", "is",
\* "love", "define love") the tech-QA probe yields no result whatever the
\* source would answer, in step 4 of smartSearch and in performWebSearch.
C22_TechProbeGated ==
  (ss_query \in {"", "is", "love", "define love"}) =>
    /\ chain["stack"].st = "done" => chain["stack"].res = NoResult
    /\ fs["stack"].st = "done" => fs["stack"].res = NoResult
    /\ \A i \in 1..Len(fullSearch.allResults) :
         fullSearch.allResults[i].source # "Stack Overflow"

\* C22 witness: a full search for "love" has ended with results of other
\* sources, after step 4 and the tech-QA source both gave nothing.
C22_Witness ==
  /\ ss_query = "love"
  /\ ss_pc = "done"
  /\ chain["stack"] = Settled(NoResult)
  /\ fs["stack"] = Settled(NoResult)
  /\ fs["extracts"].res # NoResult

\* C23: when smartSearch has returned and every probe it made, in steps 1-4
\* and in a full search that did not come from the cache, yielded null, the
\* full search was made and the value returned has found = false, no result
\* and no partialResults.
C23_NothingFound ==
  (/\ ss_pc = "done"
   /\ \A s \in Steps : chain[s].res = NoResult
   /\ \A src \in SourceSet : fs[src].res = NoResult
   /\ chain["full"].st = "done" => \A src \in SourceSet : fs[src].st = "done")
  => /\ ss_ret = Ret(FALSE, NoResult, <<>>)
     /\ \A src \in SourceSet : fs[src] = Settled(NoResult)
     /\ fullSearch.allResults = <<>>

\* C23 witness: all five sources of the full search answered null and
\* smartSearch returned found = false.
C23_Witness ==
  /\ ss_pc = "done"
  /\ \A s \in {"ddg", "wiki", "stack", "full"} : chain[s] = Settled(NoResult)
  /\ \A src \in SourceSet : fs[src] = Settled(NoResult)
  /\ ~ss_ret.found

\* C29 (as claimed): when analyzeQuery has returned for a message that
\* names a crypto token, cryptoName is the canonical name of the token found:
\* bitcoin for btc, ethereum for eth, dogecoin for doge, and the name itself
\* for a name that is already canonical.
C29_CryptoCanonical ==
  LET tok == FirstCrypto(aq_in.text)
      canonical == CASE tok = <<"b", "t", "c">> -> <<"b", "i", "t", "c", "o", "i", "n">>
                     [] tok = <<"e", "t", "h">> -> <<"e", "t", "h", "e", "r", "e", "u", "m">>
                     [] tok = <<"d", "o", "g", "e">> -> <<"d", "o", "g", "e", "c", "o", "i", "n">>
                     [] OTHER -> tok
  IN (/\ aq_pc = NGroups + 1
      /\ "cryptoName" \in aq_in.groups
      /\ "cryptoGeneric" \notin aq_in.groups)
     => aq.cryptoName = canonical

\* C28 (as claimed): when every text captured by the time patterns is made
\* of stoplist words only (what, the, is, it, me, you, a, an) and the
\* general time pattern does not match, analyzeQuery returns without
\* needsTime and with a null timeLocation.
C28_FunctionWordsRejected ==
  LET RECURSIVE OnlyStopWords(_)
      OnlyStopWords(s) ==
        LET t == TrimLeft(s)
            i == IndexFrom(t, <<" ">>, 1)
        IN IF t = <<>> THEN TRUE
           ELSE IF i = 0 THEN t \in StopWords
           ELSE SubSeq(t, 1, i - 1) \in StopWords
                /\ OnlyStopWords(SubSeq(t, i + 1, Len(t)))
  IN (/\ aq_pc = NGroups + 1
      /\ aq_in.tcaps # <<>>
      /\ \A k \in 1..Len(aq_in.tcaps) : OnlyStopWords(aq_in.tcaps[k])
      /\ "timeGeneral" \notin aq_in.groups)
     => ("needsTime" \notin aq.flags /\ aq.timeLocation = <<>>)

\* C24: when analyzeQuery has returned for a message containing
\* "convert <amount> <FROM> to <TO>", currencyAmount is the number amount
\* denotes, currencyFrom and currencyTo are FROM and TO in upper case,
\* needsCurrency is set, primaryIntent is currency_convert and confidence is
\* 0.95, whichever other groups match the message.
C24_ConvertExtraction ==
  (aq_pc = NGroups + 1 /\ "convert" \in aq_in.groups) =>
    /\ aq.currencyAmount = aq_in.amountValue
    /\ aq.currencyFrom = [i \in 1..Len(aq_in.from) |-> UpperChar(aq_in.from[i])]
    /\ aq.currencyTo = [i \in 1..Len(aq_in.to) |-> UpperChar(aq_in.to[i])]
    /\ "needsCurrency" \in aq.flags
    /\ aq.primaryIntent = "currency_convert"
    /\ aq.confidence = 95

\* C24 witness: "what is the date convert 5.50 Usd to eur" has been
\* analysed: the date group matched before the conversion group.
C24_Witness ==
  /\ aq_pc = NGroups + 1
  /\ aq_in.groups = {"convert", "date"}
  /\ aq_in.amount = <<"5", ".", "5", "0">>
  /\ aq_in.from = <<"U", "s", "d">>
  /\ aq.currencyAmount = 550
  /\ aq.currencyFrom = <<"U", "S", "D">>
  /\ aq.primaryIntent = "currency_convert"

\* C25: when analyzeQuery has returned for a message of one or more
\* characters, all of them digits, blanks, + - * / ^, parentheses or dots,
\* needsMath is set, primaryIntent is math and mathExpression is not null.
C25_PureArithmeticIsMath ==
  (/\ aq_pc = NGroups + 1
   /\ aq_in.text # <<>>
   /\ \A i \in 1..Len(aq_in.text) :
        aq_in.text[i] \in {"0", "1", "2", "3", "4", "5", "6", "7", "8", "9", " ",
                           "+", "-", "*", "/", "^", "(", ")", "."})
  => /\ "needsMath" \in aq.flags
     /\ aq.primaryIntent = "math"
     /\ aq.mathExpression # <<>>

\* C25 witness: "2 *2" has been analysed.
C25_Witness ==
  /\ aq_pc = NGroups + 1
  /\ aq_in.text = <<"2", " ", "*", "2">>
  /\ aq.primaryIntent = "math"
  /\ aq.mathExpression = <<"2", " ", "*", "2">>

\* C26: when analyzeQuery has returned for a message of more than 3
\* characters after trimming, primaryIntent is not null; when no pattern
\* group matched the message, primaryIntent is web_search, confidence is 0.5
\* and needsWebSearch is set.
C26_LongQueryHasIntent ==
  (aq_pc = NGroups + 1 /\ aq_in.long) =>
    /\ aq.primaryIntent # Null
    /\ (aq_in.groups = {}) =>
         /\ aq.primaryIntent = "web_search"
         /\ aq.confidence = 50
         /\ "needsWebSearch" \in aq.flags

\* C26 witness: "love" has been analysed: no group matched it and the web
\* search fallback gave the intent.
C26_Witness ==
  /\ aq_pc = NGroups + 1
  /\ aq_in.long
  /\ aq_in.groups = {}
  /\ aq_in.stripped = "love"
  /\ aq.primaryIntent = "web_search"
  /\ aq.searchTerms = <<"love">>

\* C27 (as claimed): when analyzeQuery has returned for a message that no
\* pattern group matched and that ends in "?", whatever its length,
\* needsWikipedia is set, confidence is 0.6 and the last search term is the
\* message without its question marks and its leading question word.
C27_QuestionNeedsWikipedia ==
  (aq_pc = NGroups + 1 /\ aq_in.groups = {} /\ aq_in.question) =>
    /\ "needsWikipedia" \in aq.flags
    /\ aq.confidence = 60
    /\ (aq_in.clean # "" => /\ aq.searchTerms # <<>>
                            /\ aq.searchTerms[Len(aq.searchTerms)] = aq_in.clean)

\* C30 (as claimed): a fetcher called with an identifier that differs only
\* in letter case or in runs of blanks from the identifier of a call whose
\* result is in the cache is served from that entry: it does not send a
\* request.
C30_EquivalentIdsShareKey ==
  (fx.st = "fetching") =>
    ~ \E k \in DOMAIN cache :
        /\ cache[k].data.cat = fx.cat
        /\ UnderscoreRuns(ToLower(cache[k].data.id)) = UnderscoreRuns(ToLower(fx.id))

\* ------------------------------------------ claims: the fallback of gatherKnowledge

\* C31: when the result map holds a category result at the moment the
\* fan-out wait ends (the synchronous date and math results, and the
\* categories whose fetcher had completed with a value by then), gatherKnowledge does not call smartSearch: no search
\* is started and no webSearch key is added. The fallback runs only from an
\* empty map.
C31_FallbackOnlyFromEmptyMap ==
  LET ResultsAtWaitEnd ==
        (results \cap {"date", "math"})
          \cup {c \in AsyncCats : fetchers[c] = "value" /\ c \notin pendingAtWaitEnd}
  IN /\ (gk_pc \in {"fallback", "returned"} /\ ResultsAtWaitEnd # {})
          => (ss_pc = "idle" /\ "webSearch" \notin results)
     /\ (gk_pc = "fallback") => ResultsAtWaitEnd = {}

\* C31 witness: the analysis has a search term and asks for a dictionary
\* entry, the wait has ended with that entry in the map, and gatherKnowledge
\* has returned without a search.
C31_Witness ==
  /\ gk_pc = "returned"
  /\ Len(analysis.searchTerms) > 0
  /\ fetchers["dictionary"] = "value"
  /\ "dictionary" \notin pendingAtWaitEnd
  /\ ss_pc = "idle"

\* C32: the map gatherKnowledge returns holds the key of a fetched category
\* only if its fetcher produced a non-null value, the math key only if a
\* math result was asked for, and the webSearch key only if smartSearch was
\* called and returned found = true; a search that returned found = false
\* or threw leaves the map without the webSearch key.
C32_KeysOnlyForValues ==
  /\ \A c \in AsyncCats : c \in results => fetchers[c] = "value"
  /\ "date" \in results => analysis.needsDate
  /\ "math" \in results => analysis.needsMath
  /\ "webSearch" \in results =>
       (ss_caller = "gk" /\ ss_pc = "done" /\ ss_ret.found)
  /\ (gk_pc = "returned" /\ ss_caller = "gk" /\ (ss_pc = "rejected" \/ ~ss_ret.found))
       => "webSearch" \notin results

\* C32 witness: gatherKnowledge has returned after a fallback search that
\* found nothing and after a fetcher that returned null: the map has
\* neither key.
C32_Witness ==
  /\ gk_pc = "returned"
  /\ ss_caller = "gk"
  /\ ss_pc = "done"
  /\ ~ss_ret.found
  /\ "webSearch" \notin results
  /\ \E c \in AsyncCats : fetchers[c] = "null" /\ c \notin results

\* ------------------------------------------------- claims: performWebSearch

\* C33: every cache entry under a "websearch_" key holds an aggregate with
\* at least one result and a non-null bestAnswer.
C33_NoEmptyAggregateCached ==
  \A k \in DOMAIN cache \cap {WebSearchKey(q) : q \in Queries} :
    /\ Len(cache[k].data.allResults) > 0
    /\ cache[k].data.bestAnswer # NoResult

\* C33 witness: a full search whose sources all returned nothing has
\* ended, and the cache has no entry under the key of its query.
C33_Witness ==
  /\ ss_pc = "done"
  /\ chain["full"].st = "done"
  /\ fullSearch.allResults = <<>>
  /\ fullSearch.bestAnswer = NoResult
  /\ WebSearchKey(ss_query) \notin DOMAIN cache

\* C34: when performWebSearch is called while the cache holds an entry for
\* the normalised query younger than 30 minutes, it returns the stored
\* aggregate, calls no source and leaves the map as it is; and a
\* performWebSearch whose sources returned at least one result stores the
\* aggregate it returns under that key, stamped with the current time. A
\* second call for the query within the window is therefore answered with
\* the aggregate of the first, the sources having been contacted once.
C34_FreshEntryServed ==
  [][LET key == WebSearchKey(ss_query)
         called == ss_pc = "stack" /\ chain'["full"].st # "idle"
         young == key \in DOMAIN cache /\ now - cache[key].timestamp < WEBSEARCH_TTL
         answered == ss_pc = "full" /\ ss_pc' = "done"
     IN /\ (called /\ young) =>
             /\ ss_pc' = "done"
             /\ fullSearch' = cache[key].data
             /\ ss_ret' = FromFullSearch(cache[key].data)
             /\ \A src \in SourceSet : fs'[src] = Idle
             /\ cache' = cache
        /\ (answered /\ Len(fullSearch'.allResults) > 0) =>
             /\ key \in DOMAIN cache'
             /\ cache'[key].data = fullSearch'
             /\ cache'[key].timestamp = now
  ]_vars

\* C34 witness: two searches, the second within 30 minutes of the first;
\* the first stored its aggregate, the second was served from the cache
\* without a source being called.
C34_Witness ==
  /\ ss_pc = "done"
  /\ stats.sets = 1
  /\ stats.hits = 1
  /\ stats.misses = 1
  /\ lastOp.op = "get"
  /\ \A src \in SourceSet : fs[src] = Idle
  /\ WebSearchKey(ss_query) \in DOMAIN cache
  /\ fullSearch = cache[WebSearchKey(ss_query)].data
  /\ now - cache[WebSearchKey(ss_query)].timestamp < WEBSEARCH_TTL

\* ------------------------------------------------ claims: the cached fetchers

\* C35 (as claimed): a fetcher whose request fails or is answered with an
\* unusable payload returns null and has left the cache map as it was when
\* it was called: it has neither written nor removed an entry. No cache
\* entry holds null as its data.
C35_FailureLeavesMapUnchanged ==
  /\ (fx.st = "done" /\ fx.ret = "null") => (~fx.stored /\ ~fx.evicted)
  /\ \A k \in DOMAIN cache : cache[k].data # NoData

\* C35 (corrected): a fetcher whose request fails or is answered with an
\* unusable payload returns null and has written nothing to the cache; the
\* only change it may have made to the map is the removal, by its cache.get,
\* of the entry under its own key when that entry was as old as the maxAge
\* of the fetcher. No cache entry holds null as its data.
C35_FailureWritesNothing ==
  /\ (fx.st = "done" /\ fx.ret = "null") => ~fx.stored
  /\ (fx.st = "fetching" /\ fx.evicted /\ lastOp.op = "get") =>
       /\ lastOp.key = CacheKeyOf(fx.cat, fx.id)
       /\ lastOp.present
       /\ now - lastOp.pre.timestamp >= FetcherTtl(fx.cat)
       /\ lastOp.key \notin DOMAIN cache
  /\ (fx.st = "fetching" /\ ~fx.evicted) => CacheKeyOf(fx.cat, fx.id) \notin DOMAIN cache
  /\ \A k \in DOMAIN cache : cache[k].data # NoData

\* C35 witness: a fetcher was called while another entry was cached, its
\* request failed, it returned null, and the entry is still there.
C35_Witness ==
  /\ fx.st = "done"
  /\ fx.ret = "null"
  /\ ~fx.stored
  /\ CacheKeyOf(fx.cat, fx.id) \notin DOMAIN cache
  /\ DOMAIN cache # {}

\* C36: the counters are exact. Every set adds one to sets and leaves hits
\* and misses; every get adds one to hits or to misses and leaves sets; has,
\* delete, clear, keys, getStats, the cleanup callbacks and the passing of
\* time leave the three counters; and getStats reports the counters with,
\* as size, the number of entries present in the map, expired ones included.
\* From the zero counters of a new cache: sets is the number of set calls
\* and hits + misses the number of get calls.
C36_CountersExact ==
  [][/\ (lastOp'.op = "set") =>
          (stats'.sets = stats.sets + 1 /\ stats'.hits = stats.hits
             /\ stats'.misses = stats.misses)
     /\ (lastOp'.op = "get") =>
          (stats'.hits + stats'.misses = stats.hits + stats.misses + 1
             /\ stats'.hits >= stats.hits /\ stats'.misses >= stats.misses
             /\ stats'.sets = stats.sets)
     /\ (lastOp'.op \notin {"set", "get"}) => stats' = stats
     /\ (lastOp'.op = "getStats") =>
          (/\ lastOp'.ret.sets = stats.sets
           /\ lastOp'.ret.hits = stats.hits
           /\ lastOp'.ret.misses = stats.misses
           /\ lastOp'.ret.size = Cardinality(DOMAIN cache)
           /\ cache' = cache)
  ]_vars

\* C36 witness: after two sets and a get that missed, getStats reports
\* sets 2, hits + misses 1 and size 2 while one of the two entries has
\* expired and has not been swept.
C36_Witness ==
  /\ lastOp.op = "getStats"
  /\ lastOp.ret.sets = 2
  /\ lastOp.ret.hits + lastOp.ret.misses = 1
  /\ lastOp.ret.size = 2
  /\ \E k \in DOMAIN cache : now - cache[k].timestamp >= cache[k].ttl

\* C37: has(key, maxAge) returns true exactly when the key is present with
\* an age below maxAge, and changes nothing: the map keeps every entry, the
\* one it reports as stale included, and the counters and timers keep their
\* values.
C37_HasIsPure ==
  [][lastOp'.op = "has" =>
       /\ lastOp'.ret = "true" <=>
            (lastOp'.key \in DOMAIN cache
               /\ now - cache[lastOp'.key].timestamp < lastOp'.arg)
       /\ lastOp'.ret \in {"true", "false"}
       /\ cache' = cache
       /\ stats' = stats
       /\ timers' = timers]_vars

\* C37 witness: has answered false for an entry as old as maxAge, and the
\* entry is still in the map with no miss counted.
C37_Witness ==
  /\ lastOp.op = "has"
  /\ lastOp.ret = "false"
  /\ lastOp.present
  /\ lastOp.at - lastOp.pre.timestamp >= lastOp.arg
  /\ lastOp.key \in DOMAIN cache
  /\ cache[lastOp.key] = lastOp.pre
  /\ stats.misses = 0

\* C38: the analysis analyzeQuery returns is consistent: a non-null
\* primaryIntent is one of the intents, the flag of the category it names is
\* set, and confidence is above 0 and at most 1; with a null primaryIntent
\* confidence is 0.
C38_IntentConsistent ==
  LET FlagOfIntent(intent) ==
        CASE intent = "time" -> "needsTime"
          [] intent = "date" -> "needsDate"
          [] intent = "weather" -> "needsWeather"
          [] intent \in {"currency", "currency_convert"} -> "needsCurrency"
          [] intent = "crypto" -> "needsCrypto"
          [] intent = "dictionary" -> "needsDictionary"
          [] intent = "math" -> "needsMath"
          [] intent = "quote" -> "needsQuote"
          [] intent = "joke" -> "needsJoke"
          [] intent = "trivia" -> "needsTrivia"
          [] intent = "knowledge" -> "needsWikipedia"
          [] intent \in {"web_search", "question"} -> "needsWebSearch"
      Intents == {"time", "date", "weather", "currency", "currency_convert",
                  "crypto", "dictionary", "math", "quote", "joke", "trivia",
                  "knowledge", "web_search", "question"}
  IN (aq_pc = NGroups + 1) =>
       /\ (aq.primaryIntent # Null) =>
            /\ aq.primaryIntent \in Intents
            /\ FlagOfIntent(aq.primaryIntent) \in aq.flags
            /\ aq.confidence > 0
            /\ aq.confidence <= 100
       /\ (aq.primaryIntent = Null) => aq.confidence = 0

\* C38 witness: a message matched by the date group and by a later group
\* has been analysed: the intent is date with confidence 0.9, and both
\* flags are set.
C38_Witness ==
  /\ aq_pc = NGroups + 1
  /\ aq.primaryIntent = "date"
  /\ aq.confidence = 90
  /\ "needsDate" \in aq.flags
  /\ aq.flags # {"needsDate"}

====
